---------------------------- MODULE Spec2Model ----------------------------
(***************************************************************************)
(* A model of rdmo_generic_instrument_search:                              *)
(*   - the search aggregator GenericSearchProvider.get_options             *)
(*     (providers/meta.py), with its thread pool and as_completed loop;    *)
(*   - the field mapper map_jamespath_to_attribute_uri                     *)
(*     (handlers/parser.py);                                               *)
(*   - the detail fetch-step merge of InstrumentSearchProvider.detail      *)
(*     (providers/recipe.py).                                              *)
(* Strings are sequences of one-character strings, so that strip(),        *)
(* lower() and the code-point order of sort() are computed, not assumed.   *)
(***************************************************************************)
EXTENDS Naturals, Integers, Sequences, FiniteSets, TLC

VARIABLES
    \* ---- aggregator (providers/meta.py) ----
    cfg,          \* the [GenericSearchProvider] table of the configuration
    nprov,        \* len(self._providers)
    behaviour,    \* what provider p's search(query) does: raises, or returns a list
    search,       \* the `search` argument of get_options
    query,        \* (search or "").strip()
    pc,           \* position of the thread that runs get_options
    fstate,       \* state of the future of provider p
    searchCalls,  \* number of times provider p's search was invoked
    completion,   \* the futures in the order in which their tasks completed
    early,        \* the futures as_completed found finished when it was entered
    yielded,      \* the futures the as_completed loop has handled, in order
    results,      \* results
    seen_ids,     \* seen_ids
    fut,          \* the future whose handling reached the cap
    cancelIdx,    \* position of the cancel loop `for f2 in futures`
    \* ---- field mapper (handlers/parser.py) ----
    attribute_mapping,  \* raw key -> attribute_uri, in the order of the dict
    data,               \* the document
    context,            \* the substitution context, {"lang": ...}
    mpc,                \* position of map_jamespath_to_attribute_uri
    midx,               \* the number of mapping items handled
    mapped_values,      \* mapped_values
    \* ---- detail (providers/recipe.py) ----
    fetch_steps,  \* self.fetch_steps
    mode,         \* self.search_config.mode
    index,        \* the items of the search source
    search_url,   \* self.search_config.url: not set, a plain url, or a template
    remote_id,    \* the remote_id argument of detail
    transforms,   \* self.transforms
    dpc,          \* position of detail
    dstep,        \* the number of fetch steps done
    tstep,        \* the number of transforms attempted
    attempted,    \* the positions of the transforms the loop reached, in order
    doc,          \* doc
    \* ---- source client (client.py) ----
    fetch_url,    \* the kind of the url argument of fetch_json
    world,        \* what the file system, the static finder and the server do
    fpc,          \* position of fetch_json
    fres,         \* what fetch_json returned
    \* ---- recipe search (providers/recipe.py) ----
    s_mode,            \* self.search_config.mode.lower()
    max_hits,          \* self.max_hits
    filter_any_paths,  \* self.search_config.filter_any_paths
    endpoint_set,      \* spec.endpoint and spec.query are set
    s_query,           \* the query argument of search
    source_items,      \* the items the source answers with
    spc,               \* position of search
    sidx,              \* the number of items the filter loop has examined
    filtered,          \* filtered
    out,               \* the options search returned
    \* ---- Wikidata closure (providers/transforms/wikidata.py) ----
    p279,          \* the P279 parents of each entity, as the server answers
    inst_classes,  \* the P31 classes of the entity
    item_qid,      \* the id of the entity, if it has one
    max_depth,     \* max_depth
    wpc,           \* position of is_instrument and of the closure it runs
    phase,         \* 1: closure from the entity's id, 2: from its P31 classes
    frontier,      \* frontier
    todo,          \* the part of frontier `for q in frontier` has not reached
    next_frontier, \* next_frontier
    visited,       \* visited
    depth,         \* depth
    expanded,      \* for each id, the depths at which this closure read its parents
    is_inst,       \* what is_instrument returned
    \* ---- provider registry (providers/factory.py, handlers/generic.py) ----
    providers,     \* [generic_search].providers of the configuration
    bpc,           \* position of build_providers
    build_error,   \* the exception build_providers raised, if any
    built,         \* built: id_prefix -> provider
    handler_name,  \* GenericDetailHandler.name
    hpc,           \* position of GenericDetailHandler.handle
    warnings,      \* number of warnings handle has logged
    \* ---- local index (providers/from_static.py) ----
    index_file,    \* what is at self.path
    l_items,       \* self._items: Absent for None
    by_id,         \* self._by_id
    reads,         \* number of times the file at self.path has been read
    history,       \* the calls made so far, each with its outcome
    \* ---- post-save handling (signals/, handlers/generic.py) ----
    external_id,    \* instance.external_id of the saved value
    is_empty,       \* instance.is_empty
    all_handlers,   \* ALL_HANDLERS.get(instance.project.catalog.uri, [])
    other_catalogs, \* ALL_HANDLERS has handlers of other catalogs
    detail_doc,     \* the document the registered providers' detail returns
    store,          \* the stored scalar values of the set, by attribute
    saved_store,    \* the stored values when transaction.atomic was entered
    muted,          \* _MUTE_POST_SAVE
    token,          \* the token of mute_value_post_save: the value to restore
    ppc,            \* position of the receiver and of what it calls
    branch,         \* the branch of handle_post_save that called the update
    hidx,           \* position of the loop over the handlers
    prefix,         \* id_prefix, as handle_post_save parsed it
    remote,         \* external_id, as handle_post_save parsed it
    matched,        \* matched
    pending,        \* the payloads branch A has still to apply
    payload,        \* the data argument of update_values_from_mapped_data
    remaining,      \* the attributes `for attribute_uri, incoming` has not reached
    unwinding,      \* the exception that is propagating, "" when none
    passed,         \* the calls of handle in this run: <<handler name, external_id>>
    writes,         \* number of saves and deletes this run has issued
    runs,           \* number of runs of handle_post_save
    nested,         \* number of runs of handle_post_save started by the update's saves
    suppressed,     \* number of times the receiver returned because muted
    saves,          \* number of times the value has been saved by the user
    \* ---- local index shared by threads (providers/from_static.py) ----
    c_file,     \* what is at self.path
    c_items,    \* self._items: Absent for None
    c_by_id,    \* self._by_id: remote id -> position of the record in the items
    c_reads,    \* number of times the file at self.path has been read
    c_call,     \* the call each thread makes
    c_pc,       \* position of each thread
    c_local,    \* `items` of each thread
    c_pos,      \* position of `for item in items` of each thread
    c_result    \* what the call of each thread returned

aggVars == <<cfg, nprov, behaviour, search, query, pc, fstate, searchCalls,
             completion, early, yielded, results, seen_ids, fut, cancelIdx>>

mapVars == <<attribute_mapping, data, context, mpc, midx, mapped_values>>

detVars == <<fetch_steps, mode, index, search_url, remote_id, transforms, dpc, dstep, tstep,
             attempted, doc>>

fetchVars == <<fetch_url, world, fpc, fres>>

searchVars == <<s_mode, max_hits, filter_any_paths, endpoint_set, s_query,
                source_items, spc, sidx, filtered, out>>

wikiVars == <<p279, inst_classes, item_qid, max_depth, wpc, phase, frontier, todo,
              next_frontier, visited, depth, expanded, is_inst>>

regVars == <<providers, bpc, build_error, built, handler_name, hpc, warnings>>

localVars == <<index_file, l_items, by_id, reads, history>>

psVars == <<external_id, is_empty, all_handlers, other_catalogs, detail_doc, store,
            saved_store, muted, token, ppc, branch, hidx, prefix, remote, matched,
            pending, payload, remaining, unwinding, passed, writes, runs, nested,
            suppressed, saves>>

sharedVars == <<c_file, c_items, c_by_id, c_reads, c_call, c_pc, c_local, c_pos,
                c_result>>

vars == <<aggVars, mapVars, detVars, fetchVars, searchVars,
         wikiVars, regVars, localVars, psVars, sharedVars>>

-----------------------------------------------------------------------------
(* Bounds of the model *)

\* the largest number of configured providers
MaxProviders == 2

\* the largest number of items of an attribute mapping
MaxMappingLen == 2

\* the largest number of fetch steps of a provider
MaxSteps == 2

\* the largest number of transforms of a provider
MaxTransforms == 2

\* the largest number of items a source answers with
MaxItems == 3

\* the largest max_hits of a provider
MaxHits == 2

\* the largest number of P279 parents of an entity
MaxParents == 2

\* the largest max_depth of a closure
MaxDepth == 2

\* the largest number of entries of a providers table
MaxEntries == 2

\* the largest number of calls on one local index provider
MaxCalls == 3

\* the largest number of saves of one value
MaxSaves == 2

\* the number of threads that call one local index provider
MaxThreads == 2

-----------------------------------------------------------------------------
(* Strings *)

\* the characters the model uses, in code-point order
CodePoints == <<" ", "1", "2", "3", ":", "G", "W", "a", "d", "e", "g", "i",
                "p", "t", "u", "w", "x", "y", "z">>

Ord(c) == CHOOSE i \in 1..Len(CodePoints) : CodePoints[i] = c

\* str.lower() on one character
LowerChar(c) == CASE c = "G" -> "g"
                  [] c = "W" -> "w"
                  [] OTHER -> c

\* str.lower()
Lower(s) == [i \in 1..Len(s) |-> LowerChar(s[i])]

\* s < t for Python strings: lexicographic by code point
RECURSIVE StrLess(_, _)
StrLess(s, t) ==
    IF t = <<>> THEN FALSE
    ELSE IF s = <<>> THEN TRUE
    ELSE IF s[1] = t[1] THEN StrLess(Tail(s), Tail(t))
    ELSE Ord(s[1]) < Ord(t[1])

RECURSIVE LStrip(_)
LStrip(s) == IF s # <<>> /\ s[1] = " " THEN LStrip(Tail(s)) ELSE s

RECURSIVE RStrip(_)
RStrip(s) == IF s # <<>> /\ s[Len(s)] = " " THEN RStrip(SubSeq(s, 1, Len(s) - 1)) ELSE s

\* a strip() that strips nothing
StripNothing(s) == s

\* str.strip()
Strip(s) == RStrip(LStrip(s))

-----------------------------------------------------------------------------
(* Provider results *)

Opt(i, t) == [id |-> i, text |-> t]

Id_x1 == <<"x", ":", "1">>
Id_y2 == <<"y", ":", "2">>
Id_z3 == <<"z", ":", "3">>
Widget == <<"W", "i", "d", "g", "e", "t">>
Dup == <<"d", "u", "p">>
Gadget == <<"G", "a", "d", "g", "e", "t">>
GadgetLower == <<"g", "a", "d", "g", "e", "t">>

\* provider.search(query) raised
Raises == [raised |-> TRUE, options |-> <<>>]

Returns(opts) == [raised |-> FALSE, options |-> opts]

\* What one provider's search may do.  Option ids have the form
\* id_prefix ":" remote id (recipe.py:308, from_static.py:124), so they are
\* never empty; two providers can still return the same id, and one provider
\* can return an id twice.
Behaviours ==
    { Raises,
      Returns(<<>>),
      Returns(<<Opt(Id_x1, Widget)>>),
      Returns(<<Opt(Id_x1, Dup), Opt(Id_y2, Gadget)>>),
      Returns(<<Opt(Id_z3, GadgetLower), Opt(Id_z3, Gadget)>>) }

\* the values a configuration key may be absent from: <<>> is "not set"
Absent == <<>>

Set(v) == <<v>>

-----------------------------------------------------------------------------
(* GenericSearchProvider.__init__ *)

Min(a, b) == IF a <= b THEN a ELSE b

\* a pool that ignores the configured max_workers
MaxWorkersDefault(c, n) == Min(8, IF n # 0 THEN n ELSE 1)

\* cfg.get("max_workers") or min(8, len(self._providers) or 1)
MaxWorkersOf(c, n) ==
    IF c.max_workers # Absent /\ c.max_workers[1] # 0
    THEN c.max_workers[1]
    ELSE Min(8, IF n # 0 THEN n ELSE 1)

\* self._ctx
SearchContext(c, n) ==
    [ max_workers    |-> MaxWorkersOf(c, n),
      max_total_hits |-> c.max_total_hits,
      sort_key       |-> c.sort_key ]

ctx == SearchContext(cfg, nprov)

-----------------------------------------------------------------------------
(* The merge loop body of get_options *)

\* the loop body without the `oid not in seen_ids` test
recMergeNoSeenTest(acc, opt) ==
    IF opt.id # <<>>
    THEN [ results  |-> Append(acc.results, Opt(opt.id, opt.text)),
           seen_ids |-> acc.seen_ids \cup {opt.id} ]
    ELSE acc

\* one iteration of `for opt in options`
recMerge(acc, opt) ==
    IF opt.id # <<>> /\ opt.id \notin acc.seen_ids
    THEN [ results  |-> Append(acc.results, Opt(opt.id, opt.text)),
           seen_ids |-> acc.seen_ids \cup {opt.id} ]
    ELSE acc

RECURSIVE MergeOptions(_, _)
\* `for opt in options: ...` from the accumulator acc = [results, seen_ids]
MergeOptions(acc, options) ==
    IF options = <<>> THEN acc
    ELSE MergeOptions(recMerge(acc, Head(options)), Tail(options))

\* self._ctx.max_total_hits is not None and len(results) >= self._ctx.max_total_hits
CapReached(c, res) ==
    c.max_total_hits # Absent /\ Len(res) >= c.max_total_hits[1]

\* the key of results.sort: (r.get(sort_key) or "").lower()
SortKey(r, key) == Lower(IF key = "id" THEN r.id ELSE r.text)

RECURSIVE InsertSorted(_, _, _)
\* r put into the sorted list after every entry whose key is not greater
InsertSorted(sorted, r, key) ==
    IF sorted = <<>> THEN <<r>>
    ELSE IF StrLess(SortKey(r, key), SortKey(Head(sorted), key))
         THEN <<r>> \o sorted
         ELSE <<Head(sorted)>> \o InsertSorted(Tail(sorted), r, key)

RECURSIVE StableSort(_, _, _)
StableSort(done, rest, key) ==
    IF rest = <<>> THEN done
    ELSE StableSort(InsertSorted(done, Head(rest), key), Tail(rest), key)

\* if self._ctx.sort_key in {"id", "text"}: results.sort(key=...)
SortResults(res, key) ==
    IF key \in {"id", "text"} THEN StableSort(<<>>, res, key) ELSE res

-----------------------------------------------------------------------------
(* get_options and the thread pool *)

Providers == 1..nprov

Running == {p \in Providers : fstate[p] = "running"}

Pending == {p \in Providers : fstate[p] = "pending"}

\* the futures whose tasks are over, as as_completed sees them
Over == {p \in Providers : fstate[p] \in {"finished", "cancelled"}}

Range(s) == {s[i] : i \in 1..Len(s)}

\* the futures that completed while as_completed was waiting, oldest first
Waiting == SelectSeq(completion, LAMBDA p : p \notin Range(yielded) /\ p \notin early)

\* the futures found finished on entry that as_completed has not yielded yet
EarlyLeft == early \ Range(yielded)

\* The configurations: the keys __init__ reads, and min_query_length, a key
\* no line of the package reads.
Configs ==
    [ max_workers      : {Absent, Set(1), Set(2)},
      max_total_hits   : {Absent, Set(1), Set(2)},
      sort_key         : {"None", "id", "text"},
      min_query_length : {Set(2)} ]

Searches == { <<>>, <<" ">>, <<"a">> }

AggInit ==
    /\ cfg \in Configs
    /\ nprov \in 0..MaxProviders
    /\ behaviour \in [1..nprov -> Behaviours]
    /\ search \in Searches
    /\ query = <<>>
    /\ pc = "start"
    /\ fstate = [p \in 1..nprov |-> "unsubmitted"]
    /\ searchCalls = [p \in 1..nprov |-> 0]
    /\ completion = <<>>
    /\ early = {}
    /\ yielded = <<>>
    /\ results = <<>>
    /\ seen_ids = {}
    /\ fut = 0
    /\ cancelIdx = 0

\* get_options up to the thread pool: the query and provider checks
Begin ==
    /\ pc = "start"
    /\ query' = Strip(search)
    /\ pc' = IF query' = <<>> \/ nprov = 0 THEN "done" ELSE "submit"
    /\ UNCHANGED <<cfg, nprov, behaviour, search, fstate, searchCalls, completion,
                   early, yielded, results, seen_ids, fut, cancelIdx>>

\* the future pool.submit makes for the next provider
NextToSubmit == CHOOSE p \in Providers :
                    /\ fstate[p] = "unsubmitted"
                    /\ \A q \in Providers : q < p => fstate[q] # "unsubmitted"

\* futures = {pool.submit(self._search_one, p, query): p for p in self._providers},
\* one submit
Submit ==
    /\ pc = "submit"
    /\ fstate' = [fstate EXCEPT ![NextToSubmit] = "pending"]
    /\ pc' = IF NextToSubmit = nprov THEN "as_completed" ELSE "submit"
    /\ UNCHANGED <<cfg, nprov, behaviour, search, query, searchCalls, completion,
                   early, yielded, results, seen_ids, fut, cancelIdx>>

\* A worker may take provider p's work item: the queue is first in first out,
\* and there are at most max_workers worker threads.
CanStart(p) ==
    /\ fstate[p] = "pending"
    /\ \A q \in Pending : p <= q
    /\ Cardinality(Running) < ctx.max_workers

\* a worker thread takes the work item and calls _search_one, which calls
\* provider.search(query)
StartTask(p) ==
    /\ CanStart(p)
    /\ fstate' = [fstate EXCEPT ![p] = "running"]
    /\ searchCalls' = [searchCalls EXCEPT ![p] = @ + 1]
    /\ UNCHANGED <<cfg, nprov, behaviour, search, query, pc, completion,
                   early, yielded, results, seen_ids, fut, cancelIdx>>

\* provider.search returns or raises; the future is finished
FinishTask(p) ==
    /\ fstate[p] = "running"
    /\ fstate' = [fstate EXCEPT ![p] = "finished"]
    /\ completion' = Append(completion, p)
    /\ UNCHANGED <<cfg, nprov, behaviour, search, query, pc, searchCalls,
                   early, yielded, results, seen_ids, fut, cancelIdx>>

\* as_completed(futures) is entered: the futures already finished are set
\* aside, to be yielded first
EnterAsCompleted ==
    /\ pc = "as_completed"
    /\ early' = Over
    /\ pc' = "loop"
    /\ UNCHANGED <<cfg, nprov, behaviour, search, query, fstate, searchCalls,
                   completion, yielded, results, seen_ids, fut, cancelIdx>>

\* a provider failure that is not caught
ProviderFailurePropagates == "raised"

\* `except Exception as exc: logger.warning(...); continue`: where get_options
\* goes on when fut.result() raises ("raised" would be get_options raising)
AfterProviderFailure == "loop"

\* The body of `for fut in as_completed(futures)` for the future of provider p
HandleFuture(p) ==
    LET b == behaviour[p]
        m == MergeOptions([results |-> results, seen_ids |-> seen_ids], b.options)
    IN  /\ yielded' = Append(yielded, p)
        /\ IF b.raised
           THEN /\ pc' = AfterProviderFailure
                /\ UNCHANGED <<results, seen_ids, fut, cancelIdx>>
           ELSE /\ results' = m.results
                /\ seen_ids' = m.seen_ids
                /\ IF CapReached(ctx, m.results)
                   THEN pc' = "cancel" /\ fut' = p /\ cancelIdx' = 1
                   ELSE pc' = "loop" /\ UNCHANGED <<fut, cancelIdx>>

\* as_completed yields a future that was finished when it was entered: these
\* come out of a set, in no particular order
YieldFinished(p) ==
    /\ pc = "loop"
    /\ p \in EarlyLeft
    /\ HandleFuture(p)
    /\ UNCHANGED <<cfg, nprov, behaviour, search, query, fstate, searchCalls,
                   completion, early>>

\* as_completed yields the futures that finish while it waits in the order in
\* which they finished
YieldCompleted ==
    /\ pc = "loop"
    /\ EarlyLeft = {}
    /\ Waiting # <<>>
    /\ HandleFuture(Head(Waiting))
    /\ UNCHANGED <<cfg, nprov, behaviour, search, query, fstate, searchCalls,
                   completion, early>>

\* as_completed has yielded every future: the loop ends
LoopEnd ==
    /\ pc = "loop"
    /\ Len(yielded) = nprov
    /\ pc' = "shutdown"
    /\ UNCHANGED <<cfg, nprov, behaviour, search, query, fstate, searchCalls,
                   completion, early, yielded, results, seen_ids, fut, cancelIdx>>

\* a cancel() that cancels nothing
CancelNothing(st) == st

\* Future.cancel(): only a future that has not started is cancelled
Cancel(st) == IF st = "pending" THEN "cancelled" ELSE st

\* one iteration of `for f2 in futures: if f2 is not fut: f2.cancel()`, then break
CancelStep ==
    /\ pc = "cancel"
    /\ fstate' = IF cancelIdx # fut
                 THEN [fstate EXCEPT ![cancelIdx] = Cancel(@)]
                 ELSE fstate
    /\ IF cancelIdx = nprov
       THEN pc' = "shutdown" /\ UNCHANGED cancelIdx
       ELSE pc' = "cancel" /\ cancelIdx' = cancelIdx + 1
    /\ UNCHANGED <<cfg, nprov, behaviour, search, query, searchCalls, completion,
                   early, yielded, results, seen_ids, fut>>

\* a shutdown that does not wait for the workers
PoolAbandoned == TRUE

\* shutdown(wait=True) returns when no work item is running or queued
PoolDrained == Running = {} /\ Pending = {}

\* Leaving `with ThreadPoolExecutor(...)` is shutdown(wait=True): it returns when
\* the workers have run every work item left.  Then the sort, and the return.
Return ==
    /\ pc = "shutdown"
    /\ PoolDrained
    /\ results' = SortResults(results, ctx.sort_key)
    /\ pc' = "done"
    /\ UNCHANGED <<cfg, nprov, behaviour, search, query, fstate, searchCalls,
                   completion, early, yielded, seen_ids, fut, cancelIdx>>

\* get_options is not running
AggIdle ==
    /\ cfg = [max_workers |-> Absent, max_total_hits |-> Absent,
              sort_key |-> "None", min_query_length |-> Absent]
    /\ nprov = 0
    /\ behaviour = <<>>
    /\ search = <<>>
    /\ query = <<>>
    /\ pc = "idle"
    /\ fstate = <<>>
    /\ searchCalls = <<>>
    /\ completion = <<>>
    /\ early = {}
    /\ yielded = <<>>
    /\ results = <<>>
    /\ seen_ids = {}
    /\ fut = 0
    /\ cancelIdx = 0

-----------------------------------------------------------------------------
(* JSON documents *)

\* A JSON value: its type t, the text s of a scalar, the members l of a list
\* or of an object.  None is Null.
Null == [t |-> "null", s |-> "", l |-> <<>>]

Str(x) == [t |-> "str", s |-> x, l |-> <<>>]

Num(x) == [t |-> "num", s |-> x, l |-> <<>>]

Bool(x) == [t |-> "bool", s |-> x, l |-> <<>>]

List(members) == [t |-> "list", s |-> "", l |-> members]

Obj(members) == [t |-> "obj", s |-> "", l |-> members]

-----------------------------------------------------------------------------
(* handlers/parser.py *)

Letters == {"a", "b", "d", "e", "g", "i", "l", "n", "p", "t", "u", "w", "x", "y", "z"}

\* an unquoted JMESPath identifier
IsIdentifier(e) == e # <<>> /\ \A i \in 1..Len(e) : e[i] \in Letters

\* str.endswith("[]")
EndsWithBrackets(e) == Len(e) >= 2 /\ e[Len(e) - 1] = "[" /\ e[Len(e)] = "]"

\* the field of a JSON object, null when it has none
Field(name, d) == IF name \in DOMAIN d THEN d[name] ELSE Null

RECURSIVE FlattenMembers(_)
\* JMESPath flatten: the members of a member list take its place
FlattenMembers(l) ==
    IF l = <<>> THEN <<>>
    ELSE (IF Head(l).t = "list" THEN Head(l).l ELSE <<Head(l)>>) \o FlattenMembers(Tail(l))

\* JMESPath `x[]`: flatten, then a projection, which drops null
Flatten(v) ==
    IF v.t = "list"
    THEN List(SelectSeq(FlattenMembers(v.l), LAMBDA m : m # Null))
    ELSE Null

\* _eval_jmespath for the expressions `name` and `name[]`; any other text is
\* a JMESPath error here, which _eval_jmespath turns into None
eval_jmespath(expr, d) ==
    IF IsIdentifier(expr) THEN Field(expr, d)
    ELSE IF EndsWithBrackets(expr) /\ IsIdentifier(SubSeq(expr, 1, Len(expr) - 2))
         THEN Flatten(Field(SubSeq(expr, 1, Len(expr) - 2), d))
         ELSE Null

LangPlaceholder == <<"{", "l", "a", "n", "g", "}">>

RECURSIVE Format(_, _)
\* expr.format(lang=lang): [ok, out]; not ok is the exception format raises
\* on a brace that is not the placeholder {lang}
Format(e, lang) ==
    IF e = <<>> THEN [ok |-> TRUE, out |-> <<>>]
    ELSE IF e[1] = "{"
         THEN IF Len(e) >= 6 /\ SubSeq(e, 1, 6) = LangPlaceholder
              THEN LET r == Format(SubSeq(e, 7, Len(e)), lang)
                   IN  [ok |-> r.ok, out |-> lang \o r.out]
              ELSE [ok |-> FALSE, out |-> <<>>]
         ELSE IF e[1] = "}" THEN [ok |-> FALSE, out |-> <<>>]
         ELSE LET r == Format(Tail(e), lang)
              IN  [ok |-> r.ok, out |-> <<e[1]>> \o r.out]

\* _render
render(expr, c) ==
    IF c = Absent THEN expr
    ELSE IF Format(expr, c[1]).ok THEN Format(expr, c[1]).out ELSE expr

\* item not in (None, "", [], {})
ItemMeaningful(item) == item \notin {Null, Str(""), List(<<>>), Obj(<<>>)}

\* _first_meaningful
first_meaningful(v) ==
    IF v.t = "list"
    THEN IF \E i \in 1..Len(v.l) : ItemMeaningful(v.l[i])
         THEN v.l[CHOOSE i \in 1..Len(v.l) :
                    /\ ItemMeaningful(v.l[i])
                    /\ \A j \in 1..(i - 1) : ~ItemMeaningful(v.l[j])]
         ELSE Null
    ELSE v

RECURSIVE SplitOr(_, _)
\* raw_key.split("||"), cur being the part read so far
SplitOr(s, cur) ==
    IF s = <<>> THEN <<cur>>
    ELSE IF Len(s) >= 2 /\ s[1] = "|" /\ s[2] = "|"
         THEN <<cur>> \o SplitOr(SubSeq(s, 3, Len(s)), <<>>)
         ELSE SplitOr(Tail(s), Append(cur, s[1]))

\* candidates = [k.strip() for k in raw_key.split("||") if k.strip()]
Candidates(raw_key) ==
    LET parts == SplitOr(raw_key, <<>>)
    IN  SelectSeq([i \in 1..Len(parts) |-> Strip(parts[i])], LAMBDA k : k # <<>>)

\* an expects_list that is never set
ExpectsListNever(cand) == FALSE

\* expects_list = cand.endswith("[]")
ExpectsList(cand) == EndsWithBrackets(cand)

\* v after `if not expects_list: v = _first_meaningful(v)`
CandidateValue(cand, d, c) ==
    LET v == eval_jmespath(render(cand, c), d)
    IN  IF ~ExpectsList(cand) THEN first_meaningful(v) ELSE v

\* the test `if v:` in place of the tuple test
ValueTruthy(v) ==
    v \notin {Null, Str(""), List(<<>>), Obj(<<>>), Num("0"), Bool("false")}

\* v not in (None, "", [], {})
ValueMeaningful(v) == v \notin {Null, Str(""), List(<<>>), Obj(<<>>)}

RECURSIVE FirstAccepted(_, _, _)
\* `value = None; for cand in candidates: ... value = v; break`
FirstAccepted(cands, d, c) ==
    IF cands = <<>> THEN Null
    ELSE IF ValueMeaningful(CandidateValue(Head(cands), d, c))
         THEN CandidateValue(Head(cands), d, c)
         ELSE FirstAccepted(Tail(cands), d, c)

\* an assignment that leaves out an attribute whose value is None
EmitUnlessNone(mv, attribute_uri, value) ==
    IF value = Null THEN mv
    ELSE [a \in DOMAIN mv \cup {attribute_uri} |->
             IF a = attribute_uri THEN value ELSE mv[a]]

\* mapped_values[attribute_uri] = value
Emit(mv, attribute_uri, value) ==
    [a \in DOMAIN mv \cup {attribute_uri} |-> IF a = attribute_uri THEN value ELSE mv[a]]

\* the raw keys of the mappings: a, a[], a||b, a[] || b, b||a[], {lang},
\* and " || "
RawKeys ==
    { <<"a">>,
      <<"a", "[", "]">>,
      <<"a", "|", "|", "b">>,
      <<"a", "[", "]", " ", "|", "|", " ", "b">>,
      <<"b", "|", "|", "a", "[", "]">>,
      LangPlaceholder,
      <<" ", "|", "|", " ">> }

Attributes == {"attr1", "attr2"}

\* the mappings: a dict has no key twice, an attribute may be the value of
\* several keys
Mappings ==
    UNION { { m \in [1..n -> [raw_key : RawKeys, attribute_uri : Attributes]] :
                \A i, j \in 1..n : i # j => m[i].raw_key # m[j].raw_key }
            : n \in 0..MaxMappingLen }

\* the values of the field a of the documents
AValues ==
    { Null, Str(""), Str("X"), Num("0"), Bool("false"), List(<<>>), Obj(<<>>),
      List(<<Null, Str(""), Str("X")>>),
      List(<<Str(""), Null>>),
      List(<<Num("0"), Str("X")>>),
      List(<<List(<<>>)>>),
      List(<<Str("X"), Str("Y")>>) }

Documents ==
    { [k \in {<<"a">>, <<"b">>, <<"e", "n">>} |->
          IF k = <<"a">> THEN va ELSE IF k = <<"b">> THEN vb ELSE ve]
      : va \in AValues, vb \in {Null, Str("X"), List(<<Str("Y")>>)},
        ve \in {Null, Str("E")} }

MapInit ==
    /\ attribute_mapping \in Mappings
    /\ data \in Documents
    /\ context \in {Set(<<"e", "n">>)}
    /\ mpc = "run"
    /\ midx = 0
    /\ mapped_values = <<>>

\* map_jamespath_to_attribute_uri is not running
MapIdle ==
    /\ attribute_mapping = <<>>
    /\ data = <<>>
    /\ context = Absent
    /\ mpc = "idle"
    /\ midx = 0
    /\ mapped_values = <<>>

\* one iteration of `for raw_key, attribute_uri in attribute_mapping.items()`
MapItem ==
    /\ mpc = "run"
    /\ midx < Len(attribute_mapping)
    /\ LET item == attribute_mapping[midx + 1]
       IN  mapped_values' =
               Emit(mapped_values, item.attribute_uri,
                    FirstAccepted(Candidates(item.raw_key), data, context))
    /\ midx' = midx + 1
    /\ UNCHANGED <<attribute_mapping, data, context, mpc>>

\* return mapped_values
MapReturn ==
    /\ mpc = "run"
    /\ midx = Len(attribute_mapping)
    /\ mpc' = "done"
    /\ UNCHANGED <<attribute_mapping, data, context, midx, mapped_values>>

-----------------------------------------------------------------------------
(* providers/recipe.py: InstrumentSearchProvider.detail *)

\* A dict is a function from its keys; {} is the function with no key.
EmptyDict == <<>>

\* d.get(k, default)
Get(d, k, default) == IF k \in DOMAIN d THEN d[k] ELSE default

\* d[k] = v
Put(d, k, v) == [x \in DOMAIN d \cup {k} |-> IF x = k THEN v ELSE d[x]]

\* what fetch_json returns for the URL of a step, None being {} after
\* `fetch_json(url) or {}`
FetchJson(url) ==
    CASE url = "A" -> [title |-> "x", included |-> <<1>>]
      [] url = "B" -> [included |-> <<2>>]
      [] url = "C" -> EmptyDict

Urls == {"A", "B", "C"}

\* FetchStep
FetchSteps == [url : Urls, merge_included : BOOLEAN, assign : {Absent, Set("raw")}]

StepLists == UNION { [1..n -> FetchSteps] : n \in 0..MaxSteps }

\* `if step.merge_included: doc["included"] = [*doc.get("included", []),
\* *part.get("included", [])]`
MergeIncluded(d, step, part) ==
    IF step.merge_included
    THEN Put(d, "included", Get(d, "included", <<>>) \o Get(part, "included", <<>>))
    ELSE d

\* `for k, v in part.items(): ...`: each key of part is written once, and
\* only the key "included" reads the document
MergeItems(d, step, part) ==
    [k \in DOMAIN d \cup DOMAIN part |->
        IF k \in DOMAIN part
        THEN IF k = "included" /\ ~step.merge_included
             THEN Get(d, "included", <<>>) \o part[k]
             ELSE part[k]
        ELSE d[k]]

\* a loop body that merges every response into the root
ApplyStepMerging(d, step) ==
    MergeItems(MergeIncluded(d, step, FetchJson(step.url)), step, FetchJson(step.url))

\* the body of `for step in self.fetch_steps or []`
ApplyStep(d, step) ==
    LET part == FetchJson(step.url)
    IN  IF step.assign # Absent
        THEN Put(d, step.assign[1], part)
        ELSE MergeItems(MergeIncluded(d, step, part), step, part)

\* the transforms a configuration may name: two functions that return a
\* changed document, one that raises, one that returns an empty document,
\* and a dotted name that _import_callable cannot resolve
TransformKinds == {"tag1", "tag2", "raises", "empty", "unresolvable"}

TransformLists == UNION { [1..n -> TransformKinds] : n \in 0..MaxTransforms }

\* fn(doc, **kwargs) for the transforms that return
CallTransform(t, d) ==
    IF t = "empty" THEN EmptyDict
    ELSE Put(d, "applied", Append(Get(d, "applied", <<>>), t))

\* an assignment without the `or doc`
ApplyTransformResult(t, d) == IF t = "raises" THEN d ELSE CallTransform(t, d)

\* `doc = fn(doc, **(t.kwargs or {})) or doc` inside try/except Exception
ApplyTransform(t, d) ==
    IF t = "raises" THEN d
    ELSE IF CallTransform(t, d) = EmptyDict THEN d ELSE CallTransform(t, d)

\* a record of the search source: its id (a number or a string, or no id)
\* and a title
Record(idType, id, title) ==
    [id |-> [t |-> idType, s |-> id], title |-> title]

RecordWithoutId(title) == [title |-> title]

\* what fetch_and_search returns as items: a list, or one record (a dict)
Indexes ==
    { [isdict |-> FALSE, items |-> <<>>],
      [isdict |-> FALSE, items |-> <<Record("str", "8", "q")>>],
      [isdict |-> FALSE,
       items |-> <<RecordWithoutId("n"), Record("num", "7", "p"), Record("str", "7", "q")>>],
      [isdict |-> TRUE, items |-> <<Record("str", "7", "p")>>] }

\* `if isinstance(items, dict): items = [items]` leaves a list of records
\* in both cases
Items(ix) == ix.items

\* the url search hands to fetch_and_search: base_url when search_config.url
\* is None, else url.format(base_url=..., query=...)
SearchFetchUrl(u) ==
    IF u = "none" THEN "base_url" ELSE IF u = "plain" THEN "plain" ELSE "formatted"

\* the url detail hands to fetch_and_search: search_config.url as it is
\* written, base_url when it is not set
DetailFetchUrl(u) ==
    IF u = "none" THEN "base_url" ELSE IF u = "plain" THEN "plain" ELSE "unformatted"

\* fetch_and_search(url, items_path or "@") in detail: the index at the url
\* of the search; at a template that was not formatted fetch_json finds no
\* file and returns an error document, which has no id
DetailIndex ==
    IF DetailFetchUrl(search_url) = SearchFetchUrl(search_url) THEN index
    ELSE [isdict |-> TRUE, items |-> <<[errors |-> <<"missing">>]>>]

\* rid is not None and str(rid) == str(remote_id)
Matches(item, rid) == "id" \in DOMAIN item /\ item["id"].s = rid

\* the `for item in items` loop: the first matching record, or None
Match(items, rid) ==
    IF \E i \in 1..Len(items) : Matches(items[i], rid)
    THEN Set(items[CHOOSE i \in 1..Len(items) :
                       /\ Matches(items[i], rid)
                       /\ \A j \in 1..(i - 1) : ~Matches(items[j], rid)])
    ELSE Absent

\* (not self.fetch_steps) and self.search_config and
\* self.search_config.mode == "client_filter"
SpecialCase == fetch_steps = <<>> /\ mode = "client_filter"

\* from_dict refuses a provider without steps unless its mode is
\* client_filter; the search source and the requested id matter only then
DetailInit ==
    /\ fetch_steps \in StepLists
    /\ mode \in (IF fetch_steps = <<>> THEN {"client_filter"} ELSE {"server", "client_filter"})
    /\ index \in (IF fetch_steps = <<>> THEN Indexes ELSE {[isdict |-> FALSE, items |-> <<>>]})
    /\ search_url \in (IF fetch_steps = <<>> THEN {"none", "plain", "template"} ELSE {"plain"})
    /\ remote_id \in (IF fetch_steps = <<>> THEN {"7", "8"} ELSE {"7"})
    /\ transforms \in TransformLists
    /\ dpc = "steps"
    /\ dstep = 0
    /\ tstep = 0
    /\ attempted = <<>>
    /\ doc = EmptyDict

\* detail is not running
DetailIdle ==
    /\ fetch_steps = <<>>
    /\ mode = "server"
    /\ index = [isdict |-> FALSE, items |-> <<>>]
    /\ search_url = "plain"
    /\ remote_id = "7"
    /\ transforms = <<>>
    /\ dpc = "idle"
    /\ dstep = 0
    /\ tstep = 0
    /\ attempted = <<>>
    /\ doc = EmptyDict

\* the special case: look the record up in the search source
LookupRecord ==
    /\ dpc = "steps"
    /\ SpecialCase
    /\ LET match == Match(Items(DetailIndex), remote_id)
       IN  IF match = Absent
           THEN dpc' = "returned" /\ doc' = EmptyDict
           ELSE dpc' = "transforms" /\ doc' = match[1]
    /\ UNCHANGED <<fetch_steps, mode, index, search_url, remote_id, transforms, dstep, tstep, attempted>>

\* one iteration of `for step in self.fetch_steps or []`
FetchStep ==
    /\ dpc = "steps"
    /\ ~SpecialCase
    /\ dstep < Len(fetch_steps)
    /\ doc' = ApplyStep(doc, fetch_steps[dstep + 1])
    /\ dstep' = dstep + 1
    /\ UNCHANGED <<fetch_steps, mode, index, search_url, remote_id, transforms, dpc, tstep, attempted>>

\* the loop over the steps ends
StepsDone ==
    /\ dpc = "steps"
    /\ ~SpecialCase
    /\ dstep = Len(fetch_steps)
    /\ dpc' = "transforms"
    /\ UNCHANGED <<fetch_steps, mode, index, search_url, remote_id, transforms, dstep, tstep,
                   attempted, doc>>

\* one iteration of `for t in self.transforms or []`; _import_callable is
\* called outside the try, so a name it cannot resolve ends detail with
\* its exception
RunTransform ==
    /\ dpc = "transforms"
    /\ tstep < Len(transforms)
    /\ tstep' = tstep + 1
    /\ attempted' = Append(attempted, tstep + 1)
    /\ IF transforms[tstep + 1] = "unresolvable"
       THEN dpc' = "raised" /\ UNCHANGED doc
       ELSE dpc' = dpc /\ doc' = ApplyTransform(transforms[tstep + 1], doc)
    /\ UNCHANGED <<fetch_steps, mode, index, search_url, remote_id, transforms, dstep>>

\* return doc
DetailReturn ==
    /\ dpc = "transforms"
    /\ tstep = Len(transforms)
    /\ dpc' = "returned"
    /\ UNCHANGED <<fetch_steps, mode, index, search_url, remote_id, transforms, dstep, tstep,
                   attempted, doc>>

-----------------------------------------------------------------------------
(* client.py: fetch_json *)

\* the urls: "", static://..., file://..., a path without scheme, http(s)://...
UrlKinds == {"empty", "static", "file", "path", "http"}

\* the parsed JSON of a source
Contents == {EmptyDict, [title |-> "x"], [errors |-> <<"upstream">>]}

\* what the collaborators of fetch_json do: finders.find, the file at the
\* path, the HTTP exchange, and whether the error response.json() raises for
\* a body that is not JSON is a RequestException (requests 2.27 and later)
\* or a plain ValueError (before)
Worlds ==
    [ find : {"found", "none", "raises"},
      file : {"ok", "missing", "unreadable", "undecodable", "malformed"},
      http : {"ok", "network_error", "non_2xx", "non_json"},
      json_error : {"RequestException", "ValueError"},
      content : Contents ]

\* {"errors": [message]}
Errors(message) == [errors |-> <<message>>]

\* nothing returned yet
NoResult == [none |-> TRUE]

FetchInit ==
    /\ fetch_url \in UrlKinds
    /\ world \in Worlds
    /\ fpc = "start"
    /\ fres = NoResult

\* fetch_json is not running
FetchIdle ==
    /\ fetch_url = "empty"
    /\ world = [find |-> "none", file |-> "missing", http |-> "network_error",
                json_error |-> "RequestException", content |-> EmptyDict]
    /\ fpc = "idle"
    /\ fres = NoResult

\* `if not url: return {}` and the dispatch on parsed.scheme
FetchStart ==
    /\ fpc = "start"
    /\ IF fetch_url = "empty" THEN fpc' = "returned" /\ fres' = EmptyDict
       ELSE /\ fpc' = (IF fetch_url = "static" THEN "find"
                       ELSE IF fetch_url \in {"file", "path"} THEN "load" ELSE "get")
            /\ UNCHANGED fres
    /\ UNCHANGED <<fetch_url, world>>

\* `abs_path = finders.find(rel_path) or rel_path` inside try/except Exception
FindStatic ==
    /\ fpc = "find"
    /\ IF world.find = "raises"
       THEN fpc' = "returned" /\ fres' = Errors("find")
       ELSE fpc' = "load" /\ UNCHANGED fres
    /\ UNCHANGED <<fetch_url, world>>

\* the exceptions _load_local_json catches: FileNotFoundError,
\* json.JSONDecodeError, OSError
CaughtByLoad == {"missing", "malformed", "unreadable"}

\* _load_local_json: a file that is not UTF-8 makes json.load raise
\* UnicodeDecodeError, a ValueError that no except clause names
LoadLocalJson ==
    /\ fpc = "load"
    /\ IF world.file = "ok" THEN fpc' = "returned" /\ fres' = world.content
       ELSE IF world.file \in CaughtByLoad
            THEN fpc' = "returned" /\ fres' = Errors(world.file)
            ELSE fpc' = "raised" /\ UNCHANGED fres
    /\ UNCHANGED <<fetch_url, world>>

\* requests.get, raise_for_status and response.json() inside
\* try/except RequestException
RequestsGet ==
    /\ fpc = "get"
    /\ IF world.http = "ok" THEN fpc' = "returned" /\ fres' = world.content
       ELSE IF world.http = "non_json" /\ world.json_error = "ValueError"
            THEN fpc' = "raised" /\ UNCHANGED fres
            ELSE fpc' = "returned" /\ fres' = Errors(world.http)
    /\ UNCHANGED <<fetch_url, world>>

-----------------------------------------------------------------------------
(* providers/recipe.py: InstrumentSearchProvider.search *)

\* an item of a source: the values at its id path and at the paths "name" and
\* "owner" (Absent is None), and what is_instrument says of it as an entity
Item(id, name, owner, instrument) ==
    [id |-> id, name |-> name, owner |-> owner, instrument |-> instrument]

SourceItems ==
    { Item(Set(<<"1">>), Set(<<"G", "a">>), Absent, TRUE),
      Item(Set(<<"2">>), Set(<<"W">>), Set(<<"x", "a">>), FALSE),
      Item(Absent, Set(<<"a">>), Absent, TRUE),
      Item(Set(<<"3">>), Set(<<"z">>), Absent, TRUE) }

SourceLists == UNION { [1..n -> SourceItems] : n \in 0..MaxItems }

\* needle in hay, for strings
Contains(hay, needle) ==
    \E i \in 0..(Len(hay) - Len(needle)) : SubSeq(hay, i + 1, i + Len(needle)) = needle

\* item[path], None when the path has no value
AtPath(item, path) == IF path = "name" THEN item.name ELSE item.owner

\* _contains
contains(item, path, q) ==
    IF AtPath(item, path) = Absent THEN FALSE
    ELSE Contains(Lower(AtPath(item, path)[1]), q)

\* an all() in place of the any()
MatchesAll(item, q) ==
    \A i \in 1..Len(filter_any_paths) : contains(item, filter_any_paths[i], Lower(q))

\* any(self._contains(item, filter_path, query.lower()) for filter_path in ...)
MatchesAny(item, q) ==
    \E i \in 1..Len(filter_any_paths) : contains(item, filter_any_paths[i], Lower(q))

\* a slice that takes the whole list
SliceAll(seq, n) == seq

\* items[: self.max_hits]
Slice(seq, n) == SubSeq(seq, 1, IF Len(seq) < n THEN Len(seq) ELSE n)

\* f"{self.id_prefix}:{rid}"
OptionId(rid) == <<"p", ":">> \o rid

\* the option of an item that has an id; the text is the label, or the id
\* when the label is empty
OptionOf(item) ==
    Opt(OptionId(item.id[1]),
        IF item.name # Absent /\ Strip(item.name[1]) # <<>>
        THEN Strip(item.name[1]) ELSE OptionId(item.id[1]))

\* _items_to_options, id_path being set (the factory requires it of the
\* modes that call it): the first max_hits items, those without id skipped
items_to_options(its) ==
    LET head == Slice(its, max_hits)
        with_id == SelectSeq(head, LAMBDA it : it.id # Absent)
    IN  [i \in 1..Len(with_id) |-> OptionOf(with_id[i])]

RECURSIVE WikidataOptions(_, _)
\* the loop of _search_wikidata_action over the entities: skip what is not
\* an instrument, stop at max_hits
WikidataOptions(ents, acc) ==
    IF ents = <<>> THEN acc
    ELSE IF ~Head(ents).instrument THEN WikidataOptions(Tail(ents), acc)
    ELSE IF Len(acc) + 1 >= max_hits THEN Append(acc, OptionOf(Head(ents)))
    ELSE WikidataOptions(Tail(ents), Append(acc, OptionOf(Head(ents))))

Modes == {"server", "client_filter", "sparql", "wikidata_action", "graphql"}

SearchInit ==
    /\ s_mode \in Modes
    /\ max_hits \in 1..MaxHits
    /\ filter_any_paths \in
           (IF s_mode = "client_filter"
            THEN {<<>>, <<"name">>, <<"name", "owner">>} ELSE {<<>>})
    /\ endpoint_set \in (IF s_mode = "sparql" THEN BOOLEAN ELSE {TRUE})
    /\ s_query \in {<<>>, <<"a">>, <<"G">>}
    /\ source_items \in SourceLists
    /\ spc = "start"
    /\ sidx = 0
    /\ filtered = <<>>
    /\ out = <<>>

\* search is not running
SearchIdle ==
    /\ s_mode = "server"
    /\ max_hits = 1
    /\ filter_any_paths = <<>>
    /\ endpoint_set = TRUE
    /\ s_query = <<>>
    /\ source_items = <<>>
    /\ spc = "idle"
    /\ sidx = 0
    /\ filtered = <<>>
    /\ out = <<>>

searchConfig == <<s_mode, max_hits, filter_any_paths, endpoint_set, s_query, source_items>>

\* `if not query or not self.search_config: return []`
SearchNoQuery ==
    /\ spc = "start"
    /\ s_query = <<>>
    /\ spc' = "returned"
    /\ out' = <<>>
    /\ UNCHANGED <<searchConfig, sidx, filtered>>

\* _search_server
SearchServer ==
    /\ spc = "start"
    /\ s_query # <<>>
    /\ s_mode = "server"
    /\ spc' = "returned"
    /\ out' = items_to_options(source_items)
    /\ UNCHANGED <<searchConfig, sidx, filtered>>

\* one iteration of `for item in items` of _search_client_filter
FilterItem ==
    /\ spc \in {"start", "filter"}
    /\ s_query # <<>>
    /\ s_mode = "client_filter"
    /\ sidx < Len(source_items)
    /\ sidx' = sidx + 1
    /\ IF MatchesAny(source_items[sidx + 1], s_query)
       THEN /\ filtered' = Append(filtered, source_items[sidx + 1])
            /\ spc' = (IF Len(filtered') >= max_hits THEN "filtered" ELSE "filter")
       ELSE /\ UNCHANGED filtered
            /\ spc' = "filter"
    /\ UNCHANGED <<searchConfig, out>>

\* the loop over the items ends
FilterEnd ==
    /\ spc \in {"start", "filter"}
    /\ s_query # <<>>
    /\ s_mode = "client_filter"
    /\ sidx = Len(source_items)
    /\ spc' = "filtered"
    /\ UNCHANGED <<searchConfig, sidx, filtered, out>>

\* return self._items_to_options(filtered, spec)
FilterReturn ==
    /\ spc = "filtered"
    /\ spc' = "returned"
    /\ out' = items_to_options(filtered)
    /\ UNCHANGED <<searchConfig, sidx, filtered>>

\* _search_sparql
SearchSparql ==
    /\ spc = "start"
    /\ s_query # <<>>
    /\ s_mode = "sparql"
    /\ spc' = "returned"
    /\ out' = (IF endpoint_set THEN items_to_options(source_items) ELSE <<>>)
    /\ UNCHANGED <<searchConfig, sidx, filtered>>

\* _search_wikidata_action: wbsearchentities keeps the hits that have an id,
\* at most max_hits * 3 of them
SearchWikidata ==
    /\ spc = "start"
    /\ s_query # <<>>
    /\ s_mode = "wikidata_action"
    /\ spc' = "returned"
    /\ out' = WikidataOptions(
                  Slice(SelectSeq(source_items, LAMBDA it : it.id # Absent), max_hits * 3),
                  <<>>)
    /\ UNCHANGED <<searchConfig, sidx, filtered>>

\* logger.warning("Unknown search mode ..."); return []
UnknownModeResult == "returned"

\* the end of search, for a mode that is none of the four
SearchUnknownMode ==
    /\ spc = "start"
    /\ s_query # <<>>
    /\ s_mode \notin {"server", "client_filter", "sparql", "wikidata_action"}
    /\ spc' = UnknownModeResult
    /\ out' = <<>>
    /\ UNCHANGED <<searchConfig, sidx, filtered>>

-----------------------------------------------------------------------------
(* providers/transforms/wikidata.py: is_instrument *)

\* root_qid
Root == "ROOT"

\* the entities other than the root
Qids == {"Q1", "Q2", "Q3"}

\* the P279 graphs: every entity has at most MaxParents parents
Graphs ==
    [Qids -> {ps \in SUBSET (Qids \cup {Root}) : Cardinality(ps) <= MaxParents}]

\* _parents_p279(cache.get(q) or {}): the root's own parents play no part
Parents(q) == IF q \in Qids THEN p279[q] ELSE {}

\* no id has had its parents read
NoneExpanded == [q \in Qids \cup {Root} |-> <<>>]

IsInstrumentInit ==
    /\ p279 \in Graphs
    /\ inst_classes \in SUBSET {"Q2", "Q3", Root}
    /\ item_qid \in {Absent, Set("Q1")}
    /\ max_depth \in 0..MaxDepth
    /\ wpc = "start"
    /\ phase = 1
    /\ frontier = {}
    /\ todo = {}
    /\ next_frontier = {}
    /\ visited = {}
    /\ depth = 0
    /\ expanded = NoneExpanded
    /\ is_inst = FALSE

\* is_instrument is not running
IsInstrumentIdle ==
    /\ p279 = [q \in Qids |-> {}]
    /\ inst_classes = {}
    /\ item_qid = Absent
    /\ max_depth = 0
    /\ wpc = "idle"
    /\ phase = 1
    /\ frontier = {}
    /\ todo = {}
    /\ next_frontier = {}
    /\ visited = {}
    /\ depth = 0
    /\ expanded = NoneExpanded
    /\ is_inst = FALSE

wikiInput == <<p279, inst_classes, item_qid, max_depth>>

\* `if item_qid:` call the closure with [item_qid], else go on to the classes
ItemClosure ==
    /\ wpc = "start"
    /\ IF item_qid # Absent
       THEN wpc' = "while" /\ frontier' = {item_qid[1]}
       ELSE wpc' = "false" /\ frontier' = {}
    /\ visited' = {}
    /\ depth' = 0
    /\ expanded' = NoneExpanded
    /\ UNCHANGED <<wikiInput, phase, todo, next_frontier, is_inst>>

\* a test that finds the root whenever there is a parent
AnyParent(parents) == parents # {}

\* root_qid in parents
RootAmong(parents) == Root \in parents

\* a bound that stops one level earlier
DepthBelow(d, m) == d < m

\* depth <= max_depth
DepthWithin(d, m) == d <= m

\* `while frontier and depth <= max_depth:` and `if root_qid in frontier`
WhileTest ==
    /\ wpc = "while"
    /\ IF frontier # {} /\ DepthWithin(depth, max_depth)
       THEN IF Root \in frontier
            THEN wpc' = "true" /\ UNCHANGED <<todo, next_frontier>>
            ELSE wpc' = "for" /\ todo' = frontier /\ next_frontier' = {}
       ELSE wpc' = "false" /\ UNCHANGED <<todo, next_frontier>>
    /\ UNCHANGED <<wikiInput, phase, frontier, visited, depth, expanded, is_inst>>

\* a test that finds no id visited
NeverVisited(q, v) == FALSE

\* q in visited
InVisited(q, v) == q \in v

\* one iteration of `for q in frontier`, in the order the set gives
VisitNode(q) ==
    /\ wpc = "for"
    /\ q \in todo
    /\ todo' = todo \ {q}
    /\ IF InVisited(q, visited)
       THEN UNCHANGED <<wpc, visited, next_frontier, expanded>>
       ELSE /\ visited' = visited \cup {q}
            /\ expanded' = [expanded EXCEPT ![q] = Append(@, depth)]
            /\ IF RootAmong(Parents(q))
               THEN wpc' = "true" /\ UNCHANGED next_frontier
               ELSE /\ wpc' = "for"
                    /\ next_frontier' = next_frontier \cup (Parents(q) \ visited')
    /\ UNCHANGED <<wikiInput, phase, frontier, depth, is_inst>>

\* `frontier = next_frontier; depth += 1`
NextLevel ==
    /\ wpc = "for"
    /\ todo = {}
    /\ frontier' = next_frontier
    /\ depth' = depth + 1
    /\ wpc' = "while"
    /\ UNCHANGED <<wikiInput, phase, todo, next_frontier, visited, expanded, is_inst>>

\* the closure from the id returned False: `inst_classes = ...; if not
\* inst_classes: return False`, else call the closure with the classes
ClassClosure ==
    /\ wpc = "false"
    /\ phase = 1
    /\ phase' = 2
    /\ IF inst_classes = {}
       THEN /\ wpc' = "returned"
            /\ is_inst' = FALSE
            /\ UNCHANGED <<frontier, visited, depth, expanded>>
       ELSE /\ wpc' = "while"
            /\ frontier' = inst_classes
            /\ visited' = {}
            /\ depth' = 0
            /\ expanded' = NoneExpanded
            /\ UNCHANGED is_inst
    /\ UNCHANGED <<wikiInput, todo, next_frontier>>

\* return True after a closure that returned True, return False after the
\* second closure returned False
IsInstrumentReturn ==
    /\ \/ wpc = "true"
       \/ wpc = "false" /\ phase = 2
    /\ is_inst' = (wpc = "true")
    /\ wpc' = "returned"
    /\ UNCHANGED <<wikiInput, phase, frontier, todo, next_frontier, visited, depth, expanded>>

-----------------------------------------------------------------------------
(* providers/factory.py: build_providers; handlers/generic.py: handle *)

\* a well-formed entry of mode "server"; "" stands for a missing string,
\* FALSE for a missing or empty field
ServerEntry ==
    [id_prefix |-> "a", engine |-> "recipe", mode |-> "server", url |-> TRUE,
     items_path |-> TRUE, id_path |-> TRUE, endpoint |-> FALSE, query |-> FALSE,
     base_url |-> "http", detail |-> "steps", text_prefix |-> TRUE]

\* a well-formed static client_filter entry: no url, no detail steps
StaticEntry ==
    [ServerEntry EXCEPT !.id_prefix = "b", !.mode = "client_filter", !.url = FALSE,
                        !.base_url = "static", !.detail = "empty"]

\* a well-formed sparql entry
SparqlEntry ==
    [ServerEntry EXCEPT !.mode = "sparql", !.url = FALSE, !.items_path = FALSE,
                        !.endpoint = TRUE, !.query = TRUE]

\* a wikidata_action entry
WikidataEntry ==
    [ServerEntry EXCEPT !.mode = "wikidata_action", !.url = FALSE,
                        !.items_path = FALSE, !.id_path = FALSE]

\* the entries a providers table is made of: the well-formed ones and
\* entries with one thing wrong
Entries ==
    { ServerEntry, StaticEntry, SparqlEntry, WikidataEntry,
      [ServerEntry EXCEPT !.id_prefix = ""],
      [ServerEntry EXCEPT !.engine = "pkg.mod:Class"],
      [ServerEntry EXCEPT !.mode = "graphql"],
      [ServerEntry EXCEPT !.mode = ""],
      [StaticEntry EXCEPT !.mode = "Client_Filter"],
      [ServerEntry EXCEPT !.id_path = FALSE],
      [ServerEntry EXCEPT !.url = FALSE],
      [ServerEntry EXCEPT !.url = FALSE, !.base_url = ""],
      [SparqlEntry EXCEPT !.endpoint = FALSE],
      [ServerEntry EXCEPT !.detail = "empty"],
      [ServerEntry EXCEPT !.detail = ""],
      [ServerEntry EXCEPT !.text_prefix = FALSE] }

\* the providers tables of up to MaxEntries entries
ProviderTables == UNION {[1..n -> Entries] : n \in 0..MaxEntries}

\* (search.get("mode") or "").lower()
ModeLower(m) == IF m = "Client_Filter" THEN "client_filter" ELSE m

\* allowed_modes
AllowedModes == {"server", "client_filter", "sparql", "wikidata_action"}

\* the keys of search that the mode requires, in the order they are tested
RequiredKeys(m) ==
    IF m \in {"server", "client_filter"} THEN <<"url", "items_path", "id_path">>
    ELSE IF m = "sparql" THEN <<"endpoint", "query", "id_path">>
    ELSE <<>>

\* search.get(key), as a truth value
SearchHas(entry, key) ==
    CASE key = "url" -> entry.url
      [] key = "items_path" -> entry.items_path
      [] key = "id_path" -> entry.id_path
      [] key = "endpoint" -> entry.endpoint
      [] key = "query" -> entry.query

\* the test of one required key: "ok", or the exception it raises
RequireKey(entry, key) ==
    IF SearchHas(entry, key) THEN "ok"
    ELSE IF key = "url" /\ ModeLower(entry.mode) \in {"server", "client_filter"}
         THEN IF entry.base_url = "" THEN "KeyError"
              ELSE IF entry.base_url = "static" THEN "ok"
              ELSE "ValueError"
         ELSE "ValueError"

\* the loop over the required keys, from key i on
RECURSIVE RequireFrom(_, _, _)
RequireFrom(entry, keys, i) ==
    IF i > Len(keys) THEN "ok"
    ELSE IF RequireKey(entry, keys[i]) # "ok" THEN RequireKey(entry, keys[i])
    ELSE RequireFrom(entry, keys, i + 1)

\* _validate_provider_entry: "ok", or the exception it raises
validate_provider_entry(entry) ==
    IF entry.id_prefix = "" THEN "ValueError"
    ELSE IF entry.engine # "recipe" THEN "ValueError"
    ELSE IF ModeLower(entry.mode) \notin AllowedModes THEN "ValueError"
    ELSE RequireFrom(entry, RequiredKeys(ModeLower(entry.mode)), 1)

\* cls(id_prefix=..., ..., available=...): neither BaseInstrumentProvider nor
\* InstrumentSearchProvider has a field `available`
Constructor == "TypeError"

\* InstrumentSearchProvider.from_dict on the merged entry: the exception it
\* raises
from_dict(entry) ==
    IF entry.detail = "" THEN "KeyError"
    ELSE IF entry.mode # "client_filter" /\ entry.detail # "steps" THEN "ValueError"
    ELSE IF entry.base_url = "" THEN "KeyError"
    ELSE IF ~entry.text_prefix THEN "KeyError"
    ELSE Constructor

\* the handler names
Names == {"a", "b", "c"}

RegistryInit ==
    /\ providers \in ProviderTables
    /\ bpc = "validate"
    /\ build_error = ""
    /\ built = EmptyDict
    /\ handler_name \in Names
    /\ hpc = "idle"
    /\ warnings = 0

\* nothing is being built
RegistryIdle ==
    /\ providers = <<>>
    /\ bpc = "idle"
    /\ build_error = ""
    /\ built = EmptyDict
    /\ handler_name = "a"
    /\ hpc = "idle"
    /\ warnings = 0

\* _validate_provider_entry(idx, entry) for the first entry
ValidateEntry ==
    /\ bpc = "validate"
    /\ providers # <<>>
    /\ LET r == validate_provider_entry(providers[1]) IN
       IF r = "ok"
       THEN bpc' = "from_dict" /\ UNCHANGED build_error
       ELSE bpc' = "failed" /\ build_error' = r
    /\ UNCHANGED <<providers, built, handler_name, hpc, warnings>>

\* provider_cls.from_dict(cfg) raises, for every entry: the loop never
\* reaches its second half (lines 132-143) nor a second entry
FromDict ==
    /\ bpc = "from_dict"
    /\ bpc' = "failed"
    /\ build_error' = from_dict(providers[1])
    /\ UNCHANGED <<providers, built, handler_name, hpc, warnings>>

\* the loop over no entries is over: return built, which
\* handlers/generic.py keeps as _PROVIDERS
BuildReturn ==
    /\ bpc = "validate"
    /\ providers = <<>>
    /\ bpc' = "returned"
    /\ UNCHANGED <<providers, build_error, built, handler_name, hpc, warnings>>

\* handle: _PROVIDERS[self.handler_name] raises KeyError, the warning is logged
HandleUnknown ==
    /\ bpc = "returned"
    /\ hpc = "idle"
    /\ handler_name \notin DOMAIN built
    /\ warnings' = warnings + 1
    /\ hpc' = "except"
    /\ UNCHANGED <<providers, bpc, build_error, built, handler_name>>

\* `raise e from e`
HandleReraise ==
    /\ hpc = "except"
    /\ hpc' = "raised"
    /\ UNCHANGED <<providers, bpc, build_error, built, handler_name, warnings>>

-----------------------------------------------------------------------------
(* providers/from_static.py: LocalIndexProvider *)

\* a record of the index
IndexRecord(pid, label) == [pid |-> pid, name |-> label]

\* the items of a well-formed index file
IndexItems == <<IndexRecord(<<"1">>, <<"G", "a">>), IndexRecord(<<"2">>, <<"W">>)>>

\* what can be at self.path: a well-formed index, an empty list, no file, a
\* file that is not JSON, a file whose bytes are not UTF-8, a JSON document
\* in which items_path does not yield a list
IndexFiles == {"index", "empty", "missing", "invalid_json", "not_utf8", "not_list"}

\* path.read_text and json.loads: the exception raised, "" when none
ReadError(file) ==
    CASE file = "missing" -> "OSError"
      [] file = "invalid_json" -> "JSONDecodeError"
      [] file = "not_utf8" -> "UnicodeDecodeError"
      [] OTHER -> ""

\* the exceptions _load_index catches
CaughtByLoadIndex == {"OSError", "JSONDecodeError"}

\* the items of a file that was read and parsed
ItemsOf(file) == IF file = "index" THEN IndexItems ELSE <<>>

\* _load_index: the items it returns, whether it read the file, the
\* exception that leaves it ("" when none) and self._items afterwards
load_index ==
    IF l_items # Absent
    THEN [items |-> l_items[1], read |-> FALSE, error |-> "", cache |-> l_items]
    ELSE IF ReadError(index_file) = ""
    THEN [items |-> ItemsOf(index_file), read |-> TRUE, error |-> "",
          cache |-> Set(ItemsOf(index_file))]
    ELSE IF ReadError(index_file) \in CaughtByLoadIndex
    THEN [items |-> <<>>, read |-> TRUE, error |-> "", cache |-> Set(<<>>)]
    ELSE [items |-> <<>>, read |-> TRUE, error |-> ReadError(index_file),
          cache |-> l_items]

\* the queries and the remote ids of the calls
LocalQueries == {<<>>, <<" ">>, <<"a">>, <<"W">>, <<"z">>}
RemoteIds == {<<>>, <<"1">>, <<"3">>}

\* _matches_item with filter_any_paths = [pid, name]
matches_item(item, q) == Contains(Lower(item.pid), q) \/ Contains(Lower(item.name), q)

\* the options of search: the ids of the matching items
LocalOptions(items, q) ==
    LET hits == SelectSeq(items, LAMBDA it : matches_item(it, q))
    IN  [i \in 1..Len(hits) |-> hits[i].pid]

\* the lazy index by id: built when it is empty and there are items
IndexById(items) ==
    IF by_id = EmptyDict /\ items # <<>>
    THEN [rid \in {items[i].pid : i \in 1..Len(items)} |->
              (CHOOSE i \in 1..Len(items) :
                   /\ items[i].pid = rid
                   /\ \A j \in 1..Len(items) : items[j].pid = rid => j <= i)]
    ELSE by_id

\* one entry of the history
Call(what, needs, l, result) ==
    [call |-> what, needs_index |-> needs, read |-> l.read, error |-> l.error,
     result |-> result]

\* a call that returns before it needs the index
NoLoad == [read |-> FALSE, error |-> ""]

LocalInit ==
    /\ index_file \in IndexFiles
    /\ l_items = Absent
    /\ by_id = EmptyDict
    /\ reads = 0
    /\ history = <<>>

\* no local index provider
LocalIdle ==
    /\ index_file = "missing"
    /\ l_items = Absent
    /\ by_id = EmptyDict
    /\ reads = 0
    /\ history = <<>>

\* search(query)
LocalSearch(qs) ==
    /\ Len(history) < MaxCalls
    /\ LET q == Lower(Strip(qs)) IN
       IF q = <<>>
       THEN /\ history' = Append(history, Call("search", FALSE, NoLoad, <<>>))
            /\ UNCHANGED <<l_items, reads>>
       ELSE LET l == load_index IN
            /\ l_items' = l.cache
            /\ reads' = reads + (IF l.read THEN 1 ELSE 0)
            /\ history' = Append(history, Call("search", TRUE, l,
                              IF l.error = "" THEN LocalOptions(l.items, q) ELSE <<>>))
    /\ UNCHANGED <<index_file, by_id>>

\* detail(remote_id)
LocalDetail(rid) ==
    /\ Len(history) < MaxCalls
    /\ IF rid = <<>>
       THEN /\ history' = Append(history, Call("detail", FALSE, NoLoad, <<>>))
            /\ UNCHANGED <<l_items, reads, by_id>>
       ELSE LET l == load_index IN
            /\ l_items' = l.cache
            /\ reads' = reads + (IF l.read THEN 1 ELSE 0)
            /\ IF l.error = ""
               THEN /\ by_id' = IndexById(l.items)
                    /\ history' = Append(history, Call("detail", TRUE, l,
                                      IF rid \in DOMAIN by_id'
                                      THEN <<l.items[by_id'[rid]].pid>> ELSE <<>>))
               ELSE /\ UNCHANGED by_id
                    /\ history' = Append(history, Call("detail", TRUE, l, <<>>))
    /\ UNCHANGED index_file

-----------------------------------------------------------------------------
(* signals/signal_handlers.py, signals/handler_post_save.py,               *)
(* signals/value_updater.py, signals/utils.py, handlers/generic.py         *)

\* The registries _PROVIDERS (handlers/generic.py:13) and ALL_HANDLERS
\* (signals/handler_post_save.py:13) are filled when the modules are
\* imported.  They are inputs here: handle_post_save and handle are modelled
\* for every registry whose handlers have the fields the two functions read
\* (name, auto_complete_field_uri, attribute_mapping, handle).

\* the keys of _PROVIDERS
Registered == {<<"p">>, <<"b">>}

\* a handler of the catalog: its name, and whether its
\* auto_complete_field_uri is instance.attribute.uri
Handler(n, f) == [name |-> n, field |-> f]

\* the handlers a catalog can have; "u" names no provider
HandlerLists ==
    LET H == {Handler(n, f) : n \in {<<"p">>, <<"b">>, <<"u">>}, f \in BOOLEAN}
    IN  {<<>>} \cup {<<x>> : x \in H}
          \cup {<<x, y>> : x \in {Handler(<<"p">>, TRUE), Handler(<<"u">>, TRUE)},
                           y \in H}

\* the external ids of the saved value: none, the option ids search makes
\* of the remote ids 1 and 1:2, ids with other prefixes, an id without ':'
ExternalIds ==
    {<<>>, OptionId(<<"1">>), OptionId(<<"1", ":", "2">>), <<"b", ":", "1">>,
     <<"u", ":", "1">>, <<"p", "1">>}

\* attribute_mapping of the handlers: document key and attribute uri, in the
\* order of the dict
HandlerMapping == << <<"title", "A1">>, <<"owner", "A2">>, <<"note", "A3">> >>

\* the uris Attribute.objects.get finds
KnownAttributes == {"A1", "A2"}

\* the documents detail can return: {}, {"errors": [...]}, documents with
\* data, and a document with data and errors
Details ==
    {EmptyDict,
     [k \in {"errors"} |-> Set(<<"e">>)],
     [k \in {"title"} |-> Set(<<"G">>)],
     [k \in {"title", "owner", "note"} |->
          IF k = "title" THEN Set(<<"G">>) ELSE IF k = "owner" THEN Set(<<"W">>)
          ELSE Set(<<"x">>)],
     [k \in {"errors", "title"} |-> IF k = "title" THEN Set(<<"G">>) ELSE Set(<<"e">>)]}

\* the values stored before the save
Stores ==
    {[a \in KnownAttributes |-> Absent],
     [a \in KnownAttributes |-> IF a = "A1" THEN Set(<<"G">>) ELSE Set(<<"d">>)]}

RECURSIVE SplitAt(_, _, _)
\* str.split(sep): the parts of s, cur being the part that is being read
SplitAt(s, sep, cur) ==
    IF s = <<>> THEN <<cur>>
    ELSE IF Head(s) = sep THEN <<cur>> \o SplitAt(Tail(s), sep, <<>>)
    ELSE SplitAt(Tail(s), sep, Append(cur, Head(s)))

\* str(instance.external_id).split(":")
SplitId(s) == SplitAt(s, ":", <<>>)

\* the uris of a mapping, in its order
Uris(mapping) == [i \in 1..Len(mapping) |-> mapping[i][2]]

\* map_jamespath_to_attribute_uri with plain keys: every attribute of the
\* mapping, None for a key the document has not
MapDocument(mapping, dd) ==
    [a \in {mapping[i][2] : i \in 1..Len(mapping)} |->
        LET i == CHOOSE j \in 1..Len(mapping) : mapping[j][2] = a
        IN  Get(dd, mapping[i][1], Absent)]

\* build_clear_payload: every attribute of the mapping, with the marker
\* that clears it
build_clear_payload(mapping) ==
    [a \in {mapping[i][2] : i \in 1..Len(mapping)} |-> Absent]

\* handle tests only `not doc`
DocEmpty(dd) == dd = EmptyDict

\* handle: `if not doc` and `elif 'errors' in doc`
DocUnusable(dd) == dd = EmptyDict \/ "errors" \in DOMAIN dd

\* GenericDetailHandler.handle: the exception it raises ("" when none) and
\* the attribute map it returns
handle(n, rid) ==
    IF n \notin Registered THEN [error |-> "KeyError", mapped |-> EmptyDict]
    ELSE IF DocUnusable(detail_doc) THEN [error |-> "", mapped |-> EmptyDict]
    ELSE [error |-> "", mapped |-> MapDocument(HandlerMapping, detail_doc)]

\* _is_muted never sees the flag
NeverMuted == FALSE

\* _is_muted
IsMuted == muted

\* _is_blank_scalar
IsBlankScalar(v) == v = Absent \/ Strip(v[1]) = <<>>

\* `not ALL_HANDLERS`
NoHandlers == all_handlers = <<>> /\ ~other_catalogs

PostSaveInit ==
    /\ external_id \in ExternalIds
    /\ is_empty \in BOOLEAN
    /\ all_handlers \in HandlerLists
    /\ other_catalogs \in BOOLEAN
    /\ detail_doc \in Details
    /\ store \in Stores
    /\ saved_store = store
    /\ muted = FALSE
    /\ token = Absent
    /\ ppc = "saved"
    /\ branch = ""
    /\ hidx = 0
    /\ prefix = <<>>
    /\ remote = <<>>
    /\ matched = FALSE
    /\ pending = <<>>
    /\ payload = EmptyDict
    /\ remaining = <<>>
    /\ unwinding = ""
    /\ passed = <<>>
    /\ writes = 0
    /\ runs = 0
    /\ nested = 0
    /\ suppressed = 0
    /\ saves = 1

\* no value is saved
PostSaveIdle ==
    /\ external_id = <<>>
    /\ is_empty = FALSE
    /\ all_handlers = <<>>
    /\ other_catalogs = FALSE
    /\ detail_doc = EmptyDict
    /\ store = [a \in KnownAttributes |-> Absent]
    /\ saved_store = store
    /\ muted = FALSE
    /\ token = Absent
    /\ ppc = "idle"
    /\ branch = ""
    /\ hidx = 0
    /\ prefix = <<>>
    /\ remote = <<>>
    /\ matched = FALSE
    /\ pending = <<>>
    /\ payload = EmptyDict
    /\ remaining = <<>>
    /\ unwinding = ""
    /\ passed = <<>>
    /\ writes = 0
    /\ runs = 0
    /\ nested = 0
    /\ suppressed = 0
    /\ saves = 0

\* post_save_project_values, called for the save of the value (instance is
\* the saved value, never None)
Receiver ==
    /\ ppc = "saved"
    /\ IF IsMuted
       THEN /\ ppc' = "done"
            /\ suppressed' = suppressed + 1
            /\ UNCHANGED runs
       ELSE /\ ppc' = "handle"
            /\ runs' = runs + 1
            /\ UNCHANGED suppressed
    /\ UNCHANGED <<external_id, is_empty, all_handlers, other_catalogs, detail_doc,
                   store, saved_store, muted, token, branch, hidx, prefix, remote,
                   matched, pending, payload, remaining, unwinding, passed, writes,
                   nested, saves>>

\* handle_post_save up to the loop over the handlers
HandleStart ==
    /\ ppc = "handle"
    /\ LET mine == SelectSeq(all_handlers, LAMBDA x : x.field)
           parts == SplitId(external_id)
       IN
       IF NoHandlers
       THEN /\ ppc' = "done"
            /\ UNCHANGED <<branch, pending, prefix, remote, hidx>>
       ELSE IF external_id = <<>> /\ is_empty
       THEN IF mine = <<>>
            THEN /\ ppc' = "done"
                 /\ UNCHANGED <<branch, pending, prefix, remote, hidx>>
            ELSE /\ ppc' = "clear"
                 /\ branch' = "A"
                 /\ pending' = [i \in 1..Len(mine) |-> build_clear_payload(HandlerMapping)]
                 /\ UNCHANGED <<prefix, remote, hidx>>
       ELSE IF external_id = <<>>
       THEN /\ ppc' = "done"
            /\ UNCHANGED <<branch, pending, prefix, remote, hidx>>
       ELSE IF Len(parts) # 2
       THEN /\ ppc' = "done"
            /\ UNCHANGED <<branch, pending, prefix, remote, hidx>>
       ELSE /\ ppc' = "loop"
            /\ branch' = "B"
            /\ prefix' = parts[1]
            /\ remote' = parts[2]
            /\ hidx' = 1
            /\ UNCHANGED pending
    /\ matched' = FALSE
    /\ UNCHANGED <<external_id, is_empty, all_handlers, other_catalogs, detail_doc,
                   store, saved_store, muted, token, payload, remaining, unwinding,
                   passed, writes, runs, nested, suppressed, saves>>

\* branch A: `for h in handlers`
ClearNext ==
    /\ ppc = "clear"
    /\ IF pending = <<>>
       THEN /\ ppc' = "done"
            /\ UNCHANGED <<payload, pending>>
       ELSE /\ ppc' = "update"
            /\ payload' = Head(pending)
            /\ pending' = Tail(pending)
    /\ UNCHANGED <<external_id, is_empty, all_handlers, other_catalogs, detail_doc,
                   store, saved_store, muted, token, branch, hidx, prefix, remote,
                   matched, remaining, unwinding, passed, writes, runs, nested,
                   suppressed, saves>>

\* branch B: one handler of `for handler in ALL_HANDLERS.get(...)`
LoopHandler ==
    /\ ppc = "loop"
    /\ hidx <= Len(all_handlers)
    /\ LET x == all_handlers[hidx]
           r == handle(x.name, remote)
       IN
       IF x.name = prefix /\ x.field
       THEN /\ passed' = Append(passed, <<x.name, remote>>)
            /\ IF r.error # ""
               THEN /\ ppc' = "raised"
                    /\ unwinding' = r.error
                    /\ UNCHANGED <<hidx, payload>>
               ELSE IF r.mapped = EmptyDict \/ Get(r.mapped, "errors", Absent) # Absent
               THEN /\ hidx' = hidx + 1
                    /\ UNCHANGED <<ppc, unwinding, payload>>
               ELSE /\ ppc' = "update"
                    /\ payload' = r.mapped
                    /\ UNCHANGED <<hidx, unwinding>>
       ELSE /\ hidx' = hidx + 1
            /\ UNCHANGED <<ppc, unwinding, payload, passed>>
    /\ UNCHANGED <<external_id, is_empty, all_handlers, other_catalogs, detail_doc,
                   store, saved_store, muted, token, branch, prefix, remote, matched,
                   pending, remaining, writes, runs, nested, suppressed, saves>>

\* branch B: the loop is over
LoopDone ==
    /\ ppc = "loop"
    /\ hidx > Len(all_handlers)
    /\ ppc' = "done"
    /\ UNCHANGED <<external_id, is_empty, all_handlers, other_catalogs, detail_doc,
                   store, saved_store, muted, token, branch, hidx, prefix, remote,
                   matched, pending, payload, remaining, unwinding, passed, writes,
                   runs, nested, suppressed, saves>>

\* the statement after update_values_from_mapped_data returned
AfterUpdate ==
    IF branch = "A"
    THEN /\ ppc' = "clear"
         /\ UNCHANGED <<matched, hidx>>
    ELSE /\ ppc' = "loop"
         /\ matched' = TRUE
         /\ hidx' = hidx + 1

\* update_values_from_mapped_data: `if not data: return`, then the two
\* context managers are entered
UpdateEnter ==
    /\ ppc = "update"
    /\ IF payload = EmptyDict
       THEN /\ AfterUpdate
            /\ UNCHANGED <<saved_store, muted, token, remaining>>
       ELSE /\ saved_store' = store
            /\ token' = Set(muted)
            /\ muted' = TRUE
            /\ remaining' = Uris(HandlerMapping)
            /\ ppc' = "writing"
            /\ UNCHANGED <<matched, hidx>>
    /\ UNCHANGED <<external_id, is_empty, all_handlers, other_catalogs, detail_doc,
                   store, branch, prefix, remote, pending, payload, unwinding,
                   passed, writes, runs, nested, suppressed, saves>>

\* one item of `for attribute_uri, incoming in data.items()`, the values
\* being scalars; a save calls the receiver, a delete does not
UpdateItem ==
    /\ ppc = "writing"
    /\ remaining # <<>>
    /\ LET a == Head(remaining)
           incoming == payload[a]
       IN
       IF a \notin KnownAttributes
       THEN UNCHANGED <<store, writes, suppressed, nested>>
       ELSE IF IsBlankScalar(incoming)
       THEN /\ store' = [store EXCEPT ![a] = Absent]
            /\ writes' = writes + 1
            /\ UNCHANGED <<suppressed, nested>>
       ELSE IF store[a] = incoming
       THEN UNCHANGED <<store, writes, suppressed, nested>>
       ELSE /\ store' = [store EXCEPT ![a] = incoming]
            /\ writes' = writes + 1
            /\ IF IsMuted
               THEN suppressed' = suppressed + 1 /\ UNCHANGED nested
               ELSE nested' = nested + 1 /\ UNCHANGED suppressed
    /\ remaining' = Tail(remaining)
    /\ UNCHANGED <<external_id, is_empty, all_handlers, other_catalogs, detail_doc,
                   saved_store, muted, token, ppc, branch, hidx, prefix, remote,
                   matched, pending, payload, unwinding, passed, runs, saves>>

\* a query of the loop raises (the database refuses it)
UpdateFails ==
    /\ ppc = "writing"
    /\ remaining # <<>>
    /\ unwinding' = "DatabaseError"
    /\ ppc' = "leaving"
    /\ UNCHANGED <<external_id, is_empty, all_handlers, other_catalogs, detail_doc,
                   store, saved_store, muted, token, branch, hidx, prefix, remote,
                   matched, pending, payload, remaining, passed, writes, runs,
                   nested, suppressed, saves>>

\* the with block is left: mute_value_post_save resets the flag, then
\* transaction.atomic commits, or rolls back when an exception leaves it
UpdateExit ==
    /\ \/ ppc = "writing" /\ remaining = <<>>
       \/ ppc = "leaving"
    /\ muted' = token[1]
    /\ token' = Absent
    /\ IF unwinding # ""
       THEN /\ store' = saved_store
            /\ ppc' = "raised"
            /\ UNCHANGED <<matched, hidx>>
       ELSE /\ AfterUpdate
            /\ UNCHANGED store
    /\ UNCHANGED <<external_id, is_empty, all_handlers, other_catalogs, detail_doc,
                   saved_store, branch, prefix, remote, pending, payload, remaining,
                   unwinding, passed, writes, runs, nested, suppressed, saves>>

\* the user saves the value again
SaveAgain ==
    /\ ppc \in {"done", "raised"}
    /\ saves < MaxSaves
    /\ saves' = saves + 1
    /\ ppc' = "saved"
    /\ unwinding' = ""
    /\ passed' = <<>>
    /\ writes' = 0
    /\ UNCHANGED <<external_id, is_empty, all_handlers, other_catalogs, detail_doc,
                   store, saved_store, muted, token, branch, hidx, prefix, remote,
                   matched, pending, payload, remaining, runs, nested, suppressed>>

-----------------------------------------------------------------------------
(* providers/from_static.py: one LocalIndexProvider called by several threads *)

\* The provider is an entry of the module-level registry, which every
\* request thread uses.  A step is what one thread does between two accesses
\* to self._items, self._by_id or the file.

Threads == 1..MaxThreads

\* the calls: detail of an id of the index, of an id it has not, and a search
SharedCalls ==
    {[op |-> "detail", arg |-> <<"1">>], [op |-> "detail", arg |-> <<"2">>],
     [op |-> "detail", arg |-> <<"3">>], [op |-> "detail", arg |-> <<>>],
     [op |-> "search", arg |-> <<"a">>]}

\* the files the threads find at self.path
SharedFiles == {"index", "empty", "missing"}

SharedInit ==
    /\ c_file \in SharedFiles
    /\ c_items = Absent
    /\ c_by_id = EmptyDict
    /\ c_reads = 0
    /\ c_call \in [Threads -> SharedCalls]
    /\ c_pc = [t \in Threads |-> "start"]
    /\ c_local = [t \in Threads |-> <<>>]
    /\ c_pos = [t \in Threads |-> 0]
    /\ c_result = [t \in Threads |-> <<>>]

\* no thread
SharedIdle ==
    /\ c_file = "missing"
    /\ c_items = Absent
    /\ c_by_id = EmptyDict
    /\ c_reads = 0
    /\ c_call = [t \in Threads |-> [op |-> "detail", arg |-> <<>>]]
    /\ c_pc = [t \in Threads |-> "idle"]
    /\ c_local = [t \in Threads |-> <<>>]
    /\ c_pos = [t \in Threads |-> 0]
    /\ c_result = [t \in Threads |-> <<>>]

\* search: `if not q: return []`; detail: `if not remote_id: return {}`
CallStart(t) ==
    /\ c_pc[t] = "start"
    /\ c_pc' = [c_pc EXCEPT ![t] =
                   IF Lower(Strip(c_call[t].arg)) = <<>> THEN "done" ELSE "load"]
    /\ UNCHANGED <<c_file, c_items, c_by_id, c_reads, c_call, c_local, c_pos, c_result>>

\* _load_index: `if self._items is not None: return self._items`
LoadCheck(t) ==
    /\ c_pc[t] = "load"
    /\ IF c_items # Absent
       THEN /\ c_local' = [c_local EXCEPT ![t] = c_items[1]]
            /\ c_pc' = [c_pc EXCEPT ![t] = "loaded"]
       ELSE /\ c_pc' = [c_pc EXCEPT ![t] = "read"]
            /\ UNCHANGED c_local
    /\ UNCHANGED <<c_file, c_items, c_by_id, c_reads, c_call, c_pos, c_result>>

\* _load_index: the file is read and parsed, the errors it catches giving []
ReadFile(t) ==
    /\ c_pc[t] = "read"
    /\ c_reads' = c_reads + 1
    /\ c_local' = [c_local EXCEPT ![t] =
                      IF ReadError(c_file) = "" THEN ItemsOf(c_file) ELSE <<>>]
    /\ c_pc' = [c_pc EXCEPT ![t] = "assign"]
    /\ UNCHANGED <<c_file, c_items, c_by_id, c_call, c_pos, c_result>>

\* _load_index: `self._items = items`
AssignItems(t) ==
    /\ c_pc[t] = "assign"
    /\ c_items' = Set(c_local[t])
    /\ c_pc' = [c_pc EXCEPT ![t] = "loaded"]
    /\ UNCHANGED <<c_file, c_by_id, c_reads, c_call, c_local, c_pos, c_result>>

\* search: the options of the matching items; detail: `if not self._by_id
\* and items`
AfterLoad(t) ==
    /\ c_pc[t] = "loaded"
    /\ IF c_call[t].op = "search"
       THEN /\ c_result' = [c_result EXCEPT ![t] =
                               LocalOptions(c_local[t], Lower(Strip(c_call[t].arg)))]
            /\ c_pc' = [c_pc EXCEPT ![t] = "done"]
            /\ UNCHANGED c_pos
       ELSE IF c_by_id = EmptyDict /\ c_local[t] # <<>>
       THEN /\ c_pc' = [c_pc EXCEPT ![t] = "build"]
            /\ c_pos' = [c_pos EXCEPT ![t] = 1]
            /\ UNCHANGED c_result
       ELSE /\ c_pc' = [c_pc EXCEPT ![t] = "lookup"]
            /\ UNCHANGED <<c_pos, c_result>>
    /\ UNCHANGED <<c_file, c_items, c_by_id, c_reads, c_call, c_local>>

\* detail: one item of `for item in items: self._by_id[rid] = item`
BuildStep(t) ==
    /\ c_pc[t] = "build"
    /\ IF c_pos[t] <= Len(c_local[t])
       THEN /\ c_by_id' = Put(c_by_id, c_local[t][c_pos[t]].pid, c_pos[t])
            /\ c_pos' = [c_pos EXCEPT ![t] = c_pos[t] + 1]
            /\ UNCHANGED c_pc
       ELSE /\ c_pc' = [c_pc EXCEPT ![t] = "lookup"]
            /\ UNCHANGED <<c_by_id, c_pos>>
    /\ UNCHANGED <<c_file, c_items, c_reads, c_call, c_local, c_result>>

\* detail: `doc = self._by_id.get(remote_id)`, {} when there is none, the
\* record otherwise (no transform)
Lookup(t) ==
    /\ c_pc[t] = "lookup"
    /\ c_result' = [c_result EXCEPT ![t] =
                       IF c_call[t].arg \in DOMAIN c_by_id
                       THEN <<c_local[t][c_by_id[c_call[t].arg]].pid>> ELSE <<>>]
    /\ c_pc' = [c_pc EXCEPT ![t] = "done"]
    /\ UNCHANGED <<c_file, c_items, c_by_id, c_reads, c_call, c_local, c_pos>>

-----------------------------------------------------------------------------
(* The specifications *)

InitAgg ==
    /\ AggInit
    /\ MapIdle
    /\ DetailIdle
    /\ FetchIdle
    /\ SearchIdle
    /\ IsInstrumentIdle
    /\ RegistryIdle
    /\ LocalIdle
    /\ PostSaveIdle
    /\ SharedIdle

\* the variables GenericSearchProvider.get_options leaves alone
notAggVars == <<mapVars, detVars, fetchVars, searchVars, wikiVars,
      regVars, localVars, psVars, sharedVars>>

\* GenericSearchProvider.get_options alone
NextAgg ==
    \/ Begin /\ UNCHANGED notAggVars
    \/ Submit /\ UNCHANGED notAggVars
    \/ (\E p \in Providers : StartTask(p)) /\ UNCHANGED notAggVars
    \/ (\E p \in Providers : FinishTask(p)) /\ UNCHANGED notAggVars
    \/ EnterAsCompleted /\ UNCHANGED notAggVars
    \/ (\E p \in Providers : YieldFinished(p)) /\ UNCHANGED notAggVars
    \/ YieldCompleted /\ UNCHANGED notAggVars
    \/ LoopEnd /\ UNCHANGED notAggVars
    \/ CancelStep /\ UNCHANGED notAggVars
    \/ Return /\ UNCHANGED notAggVars

\* GenericSearchProvider.get_options, for every configuration, provider
\* behaviour and interleaving of the worker threads
SpecAgg == InitAgg /\ [][NextAgg]_vars

InitMap ==
    /\ AggIdle
    /\ MapInit
    /\ DetailIdle
    /\ FetchIdle
    /\ SearchIdle
    /\ IsInstrumentIdle
    /\ RegistryIdle
    /\ LocalIdle
    /\ PostSaveIdle
    /\ SharedIdle

\* the variables map_jamespath_to_attribute_uri leaves alone
notMapVars == <<aggVars, detVars, fetchVars, searchVars, wikiVars,
      regVars, localVars, psVars, sharedVars>>

\* map_jamespath_to_attribute_uri alone
NextMap ==
    \/ MapItem /\ UNCHANGED notMapVars
    \/ MapReturn /\ UNCHANGED notMapVars

\* map_jamespath_to_attribute_uri, for every mapping and document
SpecMap == InitMap /\ [][NextMap]_vars

InitDetail ==
    /\ AggIdle
    /\ MapIdle
    /\ DetailInit
    /\ FetchIdle
    /\ SearchIdle
    /\ IsInstrumentIdle
    /\ RegistryIdle
    /\ LocalIdle
    /\ PostSaveIdle
    /\ SharedIdle

\* the variables InstrumentSearchProvider.detail leaves alone
notDetailVars == <<aggVars, mapVars, fetchVars, searchVars, wikiVars,
      regVars, localVars, psVars, sharedVars>>

\* InstrumentSearchProvider.detail alone
NextDetail ==
    \/ LookupRecord /\ UNCHANGED notDetailVars
    \/ FetchStep /\ UNCHANGED notDetailVars
    \/ StepsDone /\ UNCHANGED notDetailVars
    \/ RunTransform /\ UNCHANGED notDetailVars
    \/ DetailReturn /\ UNCHANGED notDetailVars

\* InstrumentSearchProvider.detail, for every list of steps and transforms
SpecDetail == InitDetail /\ [][NextDetail]_vars

InitFetch ==
    /\ AggIdle
    /\ MapIdle
    /\ DetailIdle
    /\ FetchInit
    /\ SearchIdle
    /\ IsInstrumentIdle
    /\ RegistryIdle
    /\ LocalIdle
    /\ PostSaveIdle
    /\ SharedIdle

\* the variables fetch_json leaves alone
notFetchVars == <<aggVars, mapVars, detVars, searchVars, wikiVars, regVars,
      localVars, psVars, sharedVars>>

\* fetch_json alone
NextFetch ==
    \/ FetchStart /\ UNCHANGED notFetchVars
    \/ FindStatic /\ UNCHANGED notFetchVars
    \/ LoadLocalJson /\ UNCHANGED notFetchVars
    \/ RequestsGet /\ UNCHANGED notFetchVars

\* fetch_json, for every kind of url and every behaviour of the file system,
\* the static finder and the server
SpecFetch == InitFetch /\ [][NextFetch]_vars

InitSearch ==
    /\ AggIdle
    /\ MapIdle
    /\ DetailIdle
    /\ FetchIdle
    /\ SearchInit
    /\ IsInstrumentIdle
    /\ RegistryIdle
    /\ LocalIdle
    /\ PostSaveIdle
    /\ SharedIdle

\* the variables InstrumentSearchProvider.search leaves alone
notSearchVars == <<aggVars, mapVars, detVars, fetchVars, wikiVars, regVars,
      localVars, psVars, sharedVars>>

\* InstrumentSearchProvider.search alone
NextSearch ==
    \/ SearchNoQuery /\ UNCHANGED notSearchVars
    \/ SearchServer /\ UNCHANGED notSearchVars
    \/ FilterItem /\ UNCHANGED notSearchVars
    \/ FilterEnd /\ UNCHANGED notSearchVars
    \/ FilterReturn /\ UNCHANGED notSearchVars
    \/ SearchSparql /\ UNCHANGED notSearchVars
    \/ SearchWikidata /\ UNCHANGED notSearchVars
    \/ SearchUnknownMode /\ UNCHANGED notSearchVars

\* InstrumentSearchProvider.search, for every mode, query and source response
SpecSearch == InitSearch /\ [][NextSearch]_vars

InitWiki ==
    /\ AggIdle
    /\ MapIdle
    /\ DetailIdle
    /\ FetchIdle
    /\ SearchIdle
    /\ IsInstrumentInit
    /\ RegistryIdle
    /\ LocalIdle
    /\ PostSaveIdle
    /\ SharedIdle

\* the variables is_instrument leaves alone
notWikiVars == <<aggVars, mapVars, detVars, fetchVars, searchVars,
      regVars, localVars, psVars, sharedVars>>

\* is_instrument alone
NextWiki ==
    \/ ItemClosure /\ UNCHANGED notWikiVars
    \/ WhileTest /\ UNCHANGED notWikiVars
    \/ (\E q \in Qids \cup {Root} : VisitNode(q)) /\ UNCHANGED notWikiVars
    \/ NextLevel /\ UNCHANGED notWikiVars
    \/ ClassClosure /\ UNCHANGED notWikiVars
    \/ IsInstrumentReturn /\ UNCHANGED notWikiVars

\* is_instrument, for every P279 graph, entity and max_depth, and every order
\* in which a frontier is iterated
SpecWiki == InitWiki /\ [][NextWiki]_vars

InitRegistry ==
    /\ AggIdle
    /\ MapIdle
    /\ DetailIdle
    /\ FetchIdle
    /\ SearchIdle
    /\ IsInstrumentIdle
    /\ RegistryInit
    /\ LocalIdle
    /\ PostSaveIdle
    /\ SharedIdle

\* the variables build_providers and handle leaves alone
notRegistryVars == <<aggVars, mapVars, detVars, fetchVars, searchVars,
      wikiVars, localVars, psVars, sharedVars>>

\* build_providers and handle alone
NextRegistry ==
    \/ ValidateEntry /\ UNCHANGED notRegistryVars
    \/ FromDict /\ UNCHANGED notRegistryVars
    \/ BuildReturn /\ UNCHANGED notRegistryVars
    \/ HandleUnknown /\ UNCHANGED notRegistryVars
    \/ HandleReraise /\ UNCHANGED notRegistryVars

\* build_providers on every providers table of the menu, then handle
SpecRegistry == InitRegistry /\ [][NextRegistry]_vars

InitLocal ==
    /\ AggIdle
    /\ MapIdle
    /\ DetailIdle
    /\ FetchIdle
    /\ SearchIdle
    /\ IsInstrumentIdle
    /\ RegistryIdle
    /\ LocalInit
    /\ PostSaveIdle
    /\ SharedIdle

\* the variables a LocalIndexProvider leaves alone
notLocalVars == <<aggVars, mapVars, detVars, fetchVars, searchVars,
      wikiVars, regVars, psVars, sharedVars>>

\* a LocalIndexProvider alone
NextLocal ==
    \/ (\E qs \in LocalQueries : LocalSearch(qs)) /\ UNCHANGED notLocalVars
    \/ (\E rid \in RemoteIds : LocalDetail(rid)) /\ UNCHANGED notLocalVars

\* every sequence of up to MaxCalls search and detail calls on one
\* LocalIndexProvider, for every kind of index file
SpecLocal == InitLocal /\ [][NextLocal]_vars

InitPostSave ==
    /\ AggIdle
    /\ MapIdle
    /\ DetailIdle
    /\ FetchIdle
    /\ SearchIdle
    /\ IsInstrumentIdle
    /\ RegistryIdle
    /\ LocalIdle
    /\ PostSaveInit
    /\ SharedIdle

\* the variables the post_save receiver leaves alone
notPostSaveVars == <<aggVars, mapVars, detVars, fetchVars, searchVars,
      wikiVars, regVars, localVars, sharedVars>>

\* the post_save receiver alone
NextPostSave ==
    \/ Receiver /\ UNCHANGED notPostSaveVars
    \/ HandleStart /\ UNCHANGED notPostSaveVars
    \/ ClearNext /\ UNCHANGED notPostSaveVars
    \/ LoopHandler /\ UNCHANGED notPostSaveVars
    \/ LoopDone /\ UNCHANGED notPostSaveVars
    \/ UpdateEnter /\ UNCHANGED notPostSaveVars
    \/ UpdateItem /\ UNCHANGED notPostSaveVars
    \/ UpdateFails /\ UNCHANGED notPostSaveVars
    \/ UpdateExit /\ UNCHANGED notPostSaveVars
    \/ SaveAgain /\ UNCHANGED notPostSaveVars

\* up to MaxSaves saves of one value, for every external id, handler list,
\* detail document and stored values, the update failing at any item
SpecPostSave == InitPostSave /\ [][NextPostSave]_vars

InitShared ==
    /\ AggIdle
    /\ MapIdle
    /\ DetailIdle
    /\ FetchIdle
    /\ SearchIdle
    /\ IsInstrumentIdle
    /\ RegistryIdle
    /\ LocalIdle
    /\ PostSaveIdle
    /\ SharedInit

\* the variables the threads that share a LocalIndexProvider leaves alone
notSharedVars == <<aggVars, mapVars, detVars, fetchVars, searchVars,
      wikiVars, regVars, localVars, psVars>>

\* the threads that share a LocalIndexProvider alone
NextShared ==
    \/ (\E t \in Threads : CallStart(t)) /\ UNCHANGED notSharedVars
    \/ (\E t \in Threads : LoadCheck(t)) /\ UNCHANGED notSharedVars
    \/ (\E t \in Threads : ReadFile(t)) /\ UNCHANGED notSharedVars
    \/ (\E t \in Threads : AssignItems(t)) /\ UNCHANGED notSharedVars
    \/ (\E t \in Threads : AfterLoad(t)) /\ UNCHANGED notSharedVars
    \/ (\E t \in Threads : BuildStep(t)) /\ UNCHANGED notSharedVars
    \/ (\E t \in Threads : Lookup(t)) /\ UNCHANGED notSharedVars

\* every interleaving of MaxThreads first calls on one LocalIndexProvider
SpecShared == InitShared /\ [][NextShared]_vars

-----------------------------------------------------------------------------
(* Claims about the aggregator, checked under SpecAgg *)

IdsOf(opts) == {opts[i].id : i \in 1..Len(opts)}

\* the text of the first option of opts whose id is x
FirstText(opts, x) ==
    opts[CHOOSE i \in 1..Len(opts) :
            opts[i].id = x /\ \A j \in 1..(i - 1) : opts[j].id # x].text

NoDuplicateIds(res) ==
    \A i, j \in 1..Len(res) : i # j => res[i].id # res[j].id

\* the providers whose search returned an option with id x
ReturnedBy(x) ==
    {p \in Providers : ~behaviour[p].raised /\ x \in IdsOf(behaviour[p].options)}

Pos(s, p) == CHOOSE i \in 1..Len(s) : s[i] = p

\* the member of S that comes first in the sequence s
FirstOf(s, S) == CHOOSE p \in S : \A q \in S : Pos(s, p) <= Pos(s, q)

\* C1 as stated: the returned list has no two entries with the same id, and
\* an id several providers returned carries the text of the provider whose
\* task completed first.
C1_FirstCompletionWins ==
    pc = "done" =>
        /\ NoDuplicateIds(results)
        /\ \A i \in 1..Len(results) :
              LET x == results[i].id
                  C == ReturnedBy(x) \cap Range(completion)
              IN  results[i].text = FirstText(behaviour[FirstOf(completion, C)].options, x)

\* C1 as amended: no two entries share an id; an id several providers returned
\* carries the text of the provider that completed first, unless some of them
\* had completed before get_options entered as_completed: then it carries the
\* text of one of those.
C1_FirstMergedWins ==
    /\ NoDuplicateIds(results)
    /\ \A i \in 1..Len(results) :
          LET x == results[i].id
              C == ReturnedBy(x) \cap Range(completion)
              E == C \cap early
          IN  IF E # {}
              THEN \E p \in E : results[i].text = FirstText(behaviour[p].options, x)
              ELSE results[i].text = FirstText(behaviour[FirstOf(completion, C)].options, x)

\* two providers returned the same id with different texts, both were merged
C1_Witness ==
    /\ pc = "done"
    /\ \E p, q \in Range(yielded) : \E x \in IdsOf(results) :
          /\ p # q
          /\ p \in ReturnedBy(x) /\ q \in ReturnedBy(x)
          /\ FirstText(behaviour[p].options, x) # FirstText(behaviour[q].options, x)

\* the providers whose search returns at least one option
WithResults == {p \in Providers : behaviour[p].options # <<>>}

\* C2 as stated: with max_total_hits configured, get_options returns at most
\* max_total_hits entries, and exactly one when max_total_hits = 1 and two or
\* more providers return results.
C2_AtMostMaxTotalHits ==
    (pc = "done" /\ query # <<>> /\ ctx.max_total_hits # Absent) =>
        /\ Len(results) <= ctx.max_total_hits[1]
        /\ (ctx.max_total_hits[1] = 1 /\ Cardinality(WithResults) >= 2)
              => Len(results) = 1

\* the ids returned by the providers that were asked and did not raise
UnionOfReturnedIds ==
    UNION {IdsOf(behaviour[p].options) :
              p \in {q \in Providers : searchCalls[q] > 0 /\ ~behaviour[q].raised}}

\* C3: whichever providers raise inside search, get_options does not raise,
\* and with no cap configured the ids it returns are the union of the ids
\* returned by the providers that did not raise.
C3_FailuresIsolated ==
    /\ pc # "raised"
    /\ (pc = "done" /\ ctx.max_total_hits = Absent)
          => IdsOf(results) = UnionOfReturnedIds

\* a provider raised, another returned options, and get_options returned them
C3_Witness ==
    /\ pc = "done"
    /\ ctx.max_total_hits = Absent
    /\ \E p \in Range(yielded) : behaviour[p].raised
    /\ results # <<>>

\* the cap was reached: the loop body set fut and went on to cancel
CapHit == fut # 0

C5_MinLengthShortCircuit ==
    Len(search) < cfg.min_query_length[1] =>
        /\ \A p \in Providers : fstate[p] = "unsubmitted" /\ searchCalls[p] = 0
        /\ results = <<>>

\* C5 as amended: a query that is empty or all blanks returns an empty list,
\* no task is dispatched and no provider's search is called.
C5_EmptyQueryShortCircuit ==
    (\A i \in 1..Len(search) : search[i] = " ") =>
        /\ \A p \in Providers : fstate[p] = "unsubmitted" /\ searchCalls[p] = 0
        /\ results = <<>>
        /\ pc \in {"start", "done"}

\* a blank query was answered while providers are configured
C5_Witness ==
    /\ pc = "done"
    /\ search = <<" ">>
    /\ nprov > 0

IsSortedBy(res, key) ==
    \A i \in 1..(Len(res) - 1) :
        ~StrLess(SortKey(res[i + 1], key), SortKey(res[i], key))

RECURSIVE MergeInListOrder(_, _)
\* what the merge loop leaves when provider p, p + 1, ... complete in list order
MergeInListOrder(acc, p) ==
    IF p > nprov THEN acc
    ELSE IF behaviour[p].raised THEN MergeInListOrder(acc, p + 1)
    ELSE LET m == MergeOptions(acc, behaviour[p].options)
         IN  IF CapReached(ctx, m.results) THEN m ELSE MergeInListOrder(m, p + 1)

\* the list get_options returns when the tasks complete in list order
ListOrderOutput ==
    SortResults(MergeInListOrder([results |-> <<>>, seen_ids |-> {}], 1).results,
                ctx.sort_key)

\* C6 as stated: with sort key id or text, get_options returns one and the
\* same list, ordered by the lower-cased key, under every completion order.
C6_SameListEveryOrder ==
    (pc = "done" /\ query # <<>> /\ ctx.sort_key \in {"id", "text"}) =>
        /\ IsSortedBy(results, ctx.sort_key)
        /\ results = ListOrderOutput

-----------------------------------------------------------------------------
(* Claims about the field mapper, checked under SpecMap *)

\* the attribute identifiers that occur as values of the mapping
MappedAttributes == { attribute_mapping[i].attribute_uri : i \in 1..Len(attribute_mapping) }

\* not null, not '', not [] and not {}; 0 and false are meaningful
IsMeaningful(v) ==
    /\ v.t # "null"
    /\ ~(v.t = "str" /\ v.s = "")
    /\ ~(v.t \in {"list", "obj"} /\ v.l = <<>>)

\* the evaluated (and possibly collapsed) values of the candidates of a raw key
CandidateValues(raw_key) ==
    [i \in 1..Len(Candidates(raw_key)) |->
        CandidateValue(Candidates(raw_key)[i], data, context)]

\* no candidate of the raw key yields a meaningful value
NothingMeaningful(raw_key) ==
    \A i \in 1..Len(CandidateValues(raw_key)) : ~IsMeaningful(CandidateValues(raw_key)[i])

\* C7: the key set of the output of map_jamespath_to_attribute_uri is the set
\* of attribute identifiers that occur as values of the mapping, and an
\* attribute none of whose candidates yields a meaningful value is present
\* and mapped to None.
C7_AllAttributesPresent ==
    mpc = "done" =>
        /\ DOMAIN mapped_values = MappedAttributes
        /\ \A i \in 1..Len(attribute_mapping) :
               (\A j \in 1..Len(attribute_mapping) :
                    attribute_mapping[j].attribute_uri = attribute_mapping[i].attribute_uri
                        => NothingMeaningful(attribute_mapping[j].raw_key))
               => mapped_values[attribute_mapping[i].attribute_uri] = Null

\* a mapping of two attributes was applied, and one of them resolved to
\* nothing while the other has a value
C7_Witness ==
    /\ mpc = "done"
    /\ DOMAIN mapped_values = {"attr1", "attr2"}
    /\ mapped_values["attr1"] = Null
    /\ mapped_values["attr2"] # Null

\* the value of the lowest-index meaningful candidate, None when there is none
LowestMeaningful(vals) ==
    IF \E i \in 1..Len(vals) : IsMeaningful(vals[i])
    THEN vals[CHOOSE i \in 1..Len(vals) :
                  /\ IsMeaningful(vals[i])
                  /\ \A j \in 1..(i - 1) : ~IsMeaningful(vals[j])]
    ELSE Null

\* C8: the value emitted for the attribute of a raw key c1 || ... || cn is
\* that of the lowest-index candidate whose evaluated (and possibly collapsed)
\* value is meaningful, 0 and false being meaningful and emitted unchanged;
\* the candidates after it do not affect the result.
C8_LowestMeaningfulCandidate ==
    [][midx' = midx + 1 =>
          mapped_values'[attribute_mapping[midx + 1].attribute_uri] =
              LowestMeaningful(CandidateValues(attribute_mapping[midx + 1].raw_key))]_vars

\* the key a||b was applied to a document whose a is 0 and whose b is "X",
\* and 0 was emitted
C8_Witness ==
    /\ midx = 1
    /\ attribute_mapping[1].raw_key = <<"a", "|", "|", "b">>
    /\ data[<<"a">>] = Num("0")
    /\ data[<<"b">>] = Str("X")
    /\ mapped_values[attribute_mapping[1].attribute_uri] = Num("0")

\* candidate i of the raw key is evaluated: no candidate before it was accepted
Reached(raw_key, i) ==
    \A j \in 1..(i - 1) : ~IsMeaningful(CandidateValues(raw_key)[j])

\* what the evaluation of candidate i of the raw key yields, before any collapse
Evaluated(raw_key, i) == eval_jmespath(render(Candidates(raw_key)[i], context), data)

\* the first element of a list that is not null, '', [] or {}, None without one
FirstMeaningfulElement(members) == LowestMeaningful(members)

\* the value emitted when candidate i of the raw key is treated as absent
EmittedAfter(raw_key, i) ==
    LowestMeaningful(SubSeq(CandidateValues(raw_key), i + 1, Len(CandidateValues(raw_key))))

\* the second half of C9: a candidate not ending in [] whose evaluation
\* yields a list emits the first element that is not null, '', [] or {},
\* and is treated as absent when the list has none
CollapsesList(raw_key, i, emitted) ==
    (~EndsWithBrackets(Candidates(raw_key)[i]) /\ Evaluated(raw_key, i).t = "list") =>
        IF IsMeaningful(FirstMeaningfulElement(Evaluated(raw_key, i).l))
        THEN emitted = FirstMeaningfulElement(Evaluated(raw_key, i).l)
        ELSE emitted = EmittedAfter(raw_key, i)

\* C9 as stated: a candidate ending in [] whose evaluation yields a list emits
\* that whole list unchanged; a candidate not ending in [] whose evaluation
\* yields a list emits only its first element that is not null, '', [] or {},
\* and is treated as absent when the list has no such element.
C9_ListPreservedOrCollapsed ==
    [][midx' = midx + 1 =>
          LET raw_key == attribute_mapping[midx + 1].raw_key
              emitted == mapped_values'[attribute_mapping[midx + 1].attribute_uri]
          IN  \A i \in 1..Len(Candidates(raw_key)) :
                  Reached(raw_key, i) =>
                      /\ (EndsWithBrackets(Candidates(raw_key)[i])
                              /\ Evaluated(raw_key, i).t = "list")
                             => emitted = Evaluated(raw_key, i)
                      /\ CollapsesList(raw_key, i, emitted)]_vars

\* C9 as amended: a candidate ending in [] whose evaluation yields a
\* non-empty list emits that whole list unchanged, and one whose evaluation
\* yields the empty list is treated as absent; a candidate not ending in []
\* whose evaluation yields a list emits only its first element that is not
\* null, '', [] or {}, and is treated as absent when the list has none.
C9_NonEmptyListPreservedOrCollapsed ==
    [][midx' = midx + 1 =>
          LET raw_key == attribute_mapping[midx + 1].raw_key
              emitted == mapped_values'[attribute_mapping[midx + 1].attribute_uri]
          IN  \A i \in 1..Len(Candidates(raw_key)) :
                  Reached(raw_key, i) =>
                      /\ (EndsWithBrackets(Candidates(raw_key)[i])
                              /\ Evaluated(raw_key, i).t = "list")
                             => IF Evaluated(raw_key, i).l # <<>>
                                THEN emitted = Evaluated(raw_key, i)
                                ELSE emitted = EmittedAfter(raw_key, i)
                      /\ CollapsesList(raw_key, i, emitted)]_vars

\* over a document whose a is [null, "", "X"], the key a[] emitted the list
\* ["", "X"] its evaluation yields and the key a emitted "X"
C9_Witness ==
    /\ mpc = "done"
    /\ Len(attribute_mapping) = 2
    /\ attribute_mapping[1] = [raw_key |-> <<"a", "[", "]">>, attribute_uri |-> "attr1"]
    /\ attribute_mapping[2] = [raw_key |-> <<"a">>, attribute_uri |-> "attr2"]
    /\ data[<<"a">>] = List(<<Null, Str(""), Str("X")>>)
    /\ mapped_values["attr1"] = List(<<Str(""), Str("X")>>)
    /\ mapped_values["attr2"] = Str("X")

-----------------------------------------------------------------------------
(* Claims about detail, checked under SpecDetail *)

RECURSIVE ConcatIncluded(_)
\* the `included` lists of the responses of the steps, concatenated in step order
ConcatIncluded(steps) ==
    IF steps = <<>> THEN <<>>
    ELSE Get(FetchJson(Head(steps).url), "included", <<>>) \o ConcatIncluded(Tail(steps))

\* C10 as stated: for steps without assign, the `included` list of the detail
\* document is the concatenation, in step order, of the `included` lists of
\* all step responses, whatever each step's merge_included flag is.
C10_IncludedConcatenatedAlways ==
    (/\ dpc = "transforms"
     /\ tstep = 0
     /\ fetch_steps # <<>>
     /\ \A i \in 1..Len(fetch_steps) : fetch_steps[i].assign = Absent)
        => Get(doc, "included", <<>>) = ConcatIncluded(fetch_steps)

RECURSIVE StepsResult(_, _)
\* the document the fetch steps leave
StepsResult(d, steps) ==
    IF steps = <<>> THEN d ELSE StepsResult(ApplyStep(d, Head(steps)), Tail(steps))

\* the document detail hands to its transforms
BaseDocument ==
    IF SpecialCase THEN Match(Items(DetailIndex), remote_id)[1]
    ELSE StepsResult(EmptyDict, fetch_steps)

\* detail returned without reaching its transforms: no record matched
LookupMissed == SpecialCase /\ Match(Items(DetailIndex), remote_id) = Absent

RECURSIVE SuccessfulApplied(_, _)
\* the transforms that return a document, applied in order; one that raises
\* or cannot be resolved is left out, one that returns nothing keeps the
\* document
SuccessfulApplied(d, ts) ==
    IF ts = <<>> THEN d
    ELSE IF Head(ts) \in {"tag1", "tag2"}
         THEN SuccessfulApplied(Put(d, "applied", Append(Get(d, "applied", <<>>), Head(ts))),
                                Tail(ts))
         ELSE SuccessfulApplied(d, Tail(ts))

\* C11 as stated: whichever transforms fail, a transform whose name cannot be
\* resolved included, detail does not raise, every transform is attempted
\* exactly once in configured order, and the returned document is the merged
\* document with only the successful transforms applied, in order.
C11_TransformFailuresSkipped ==
    /\ dpc # "raised"
    /\ (dpc = "returned" /\ ~LookupMissed) =>
           /\ attempted = [i \in 1..Len(transforms) |-> i]
           /\ doc = SuccessfulApplied(BaseDocument, transforms)

-----------------------------------------------------------------------------
(* Claims about the source client, checked under SpecFetch *)

\* {errors: [message, ...]}
ErrorShaped(d) == DOMAIN d = {"errors"} /\ Len(d["errors"]) >= 1

\* C12 as stated: for every url and every failure mode (missing, unreadable
\* or undecodable file, malformed JSON, network error, non-2xx response,
\* non-JSON body) fetch_json returns the parsed JSON document or a document
\* of the shape {errors: [message, ...]}, and never raises.
C12_FetchNeverRaises ==
    /\ fpc # "raised"
    /\ fpc = "returned" => (fres \in Contents \/ ErrorShaped(fres))

-----------------------------------------------------------------------------
(* Claims about the recipe search, checked under SpecSearch *)

\* C13: in every search mode and for every source response, search returns
\* at most max_hits options.
C13_AtMostMaxHits == spc = "returned" => Len(out) <= max_hits

\* a server search returned max_hits options of a source that has more items
\* with an id
C13_Witness ==
    /\ spc = "returned"
    /\ s_mode = "server"
    /\ Len(out) = max_hits
    /\ Len(SelectSeq(source_items, LAMBDA it : it.id # Absent)) > max_hits

\* the value at a filter path contains the lower-cased query
PathMatches(item, path) ==
    LET v == IF path = "name" THEN item.name ELSE item.owner
    IN  v # Absent /\ Contains(Lower(v[1]), Lower(s_query))

\* at least one of filter_any_paths matches
AnyPathMatches(item) ==
    \E i \in 1..Len(filter_any_paths) : PathMatches(item, filter_any_paths[i])

\* the matching items among the first n source items
MatchingUpTo(n) == SelectSeq(SubSeq(source_items, 1, n), AnyPathMatches)

\* the first max_hits matching source items, in source order
FirstMatching == Slice(MatchingUpTo(Len(source_items)), max_hits)

\* the filter stopped at the item that completed max_hits matches, or at the
\* end of the source
StoppedWhileFiltering ==
    /\ Len(MatchingUpTo(sidx)) = Len(FirstMatching)
    /\ sidx < Len(source_items) =>
           /\ Len(MatchingUpTo(sidx)) = max_hits
           /\ Len(MatchingUpTo(sidx - 1)) = max_hits - 1

\* C14 as stated: a client_filter search returns one option for each of the
\* first max_hits source items, in source order, for which at least one of
\* filter_any_paths evaluates to a value containing the lower-cased query; an
\* item no filter path matches never appears; the truncation to max_hits
\* happens while filtering.
C14_OneOptionPerMatchingItem ==
    (spc = "returned" /\ s_mode = "client_filter" /\ s_query # <<>>) =>
        /\ Len(out) = Len(FirstMatching)
        /\ \A i \in 1..Len(out) :
               /\ FirstMatching[i].id # Absent
               /\ out[i].id = OptionId(FirstMatching[i].id[1])
        /\ StoppedWhileFiltering

\* the items of a list that have an id
HavingId(its) == SelectSeq(its, LAMBDA it : it.id # Absent)

\* C14 as amended: a client_filter search returns one option for each of the
\* first max_hits matching source items that has an id, in source order (a
\* matching item without id counts towards max_hits and yields no option);
\* an item no filter path matches never appears; the truncation to max_hits
\* happens while filtering.
C14_OneOptionPerMatchingItemWithId ==
    (spc = "returned" /\ s_mode = "client_filter" /\ s_query # <<>>) =>
        /\ Len(out) = Len(HavingId(FirstMatching))
        /\ \A i \in 1..Len(out) : out[i].id = OptionId(HavingId(FirstMatching)[i].id[1])
        /\ StoppedWhileFiltering

\* a client_filter search skipped an item that does not match, returned
\* max_hits options and left the rest of the source unexamined
C14_Witness ==
    /\ spc = "returned"
    /\ s_mode = "client_filter"
    /\ Len(out) = max_hits
    /\ sidx < Len(source_items)
    /\ \E i \in 1..sidx : ~AnyPathMatches(source_items[i])

\* the first record of the search source whose id equals remote_id as a string
FirstMatchingRecord == Match(Items(index), remote_id)

\* C15 as stated: for a client_filter provider without detail steps, detail
\* fetches the source that search fetches; when some record's id_path value
\* equals remote_id as a string, the first such record is the base document
\* the transforms start from; when no record matches, detail returns an empty
\* document.
C15_DetailFromSearchSource ==
    (SpecialCase /\ dpc # "steps") =>
        /\ DetailFetchUrl(search_url) = SearchFetchUrl(search_url)
        /\ IF FirstMatchingRecord = Absent
           THEN dpc = "returned" /\ doc = EmptyDict /\ attempted = <<>>
           ELSE /\ tstep = 0 => (dpc = "transforms" \/ transforms = <<>>) /\ doc = FirstMatchingRecord[1]
                /\ dpc = "returned" => tstep = Len(transforms)


(* Claims about the Wikidata closure *)

\* the ids within k P279 steps of the ids in S
RECURSIVE Within(_, _)
Within(S, k) ==
    IF k = 0 THEN S
    ELSE LET W == Within(S, k - 1) IN W \cup UNION {Parents(q) : q \in W}

\* the bounded closure of S reaches the root: the loop runs for depth
\* 0..max_depth and looks one step ahead at the parents
BoundedReaches(S) == Root \in Within(S, max_depth + 1)

\* the start ids of the closure from the entity's own id
ItemStart == IF item_qid = Absent THEN {} ELSE {item_qid[1]}

\* some P31 class of the entity is a P279 subclass of the root
InstanceOfSubclassOfRoot == \E c \in inst_classes : Root \in Parents(c)

SpecWikiFair == SpecWiki /\ WF_vars(NextWiki)

\* the start ids of the closure that is running
StartIds == IF phase = 1 THEN ItemStart ELSE inst_classes

\* the root is reachable from the start ids along P279, in any number of steps
Reachable == Root \in Within(StartIds, Cardinality(Qids) + 1)

\* C17: a closure search that has started terminates, on every P279 graph
\* and for every max_depth, and it returns true only when the root is
\* reachable from its start ids, so false when it is not
C17_ClosureTerminates ==
    /\ (wpc \in {"while", "for"}) ~> (wpc \in {"true", "false"})
    /\ [](wpc = "true" => Reachable)

\* the closure from Q1 on the cycle Q1 -> Q2 -> Q1 returned false after
\* visiting both
C17_Witness ==
    /\ wpc = "false"
    /\ phase = 1
    /\ item_qid = Set("Q1")
    /\ p279["Q1"] = {"Q2"}
    /\ p279["Q2"] = {"Q1"}
    /\ visited = {"Q1", "Q2"}
    /\ ~Reachable


(* Claims about the provider registry *)

\* build_providers is over
BuildOver == bpc \in {"failed", "returned"}

\* build_providers failed with an error about the configuration
ConfigurationError == bpc = "failed" /\ build_error \in {"ValueError", "KeyError"}

\* the entry has every field its search mode uses at run time
EntryComplete(entry) ==
    CASE ModeLower(entry.mode) \in {"server", "client_filter"} ->
             /\ entry.url \/ entry.base_url # ""
             /\ entry.items_path
             /\ entry.id_path
      [] ModeLower(entry.mode) = "sparql" ->
             entry.endpoint /\ entry.query /\ entry.id_path
      [] OTHER -> TRUE

\* the entry names an unknown engine or mode or lacks a field of its mode
EntryFaulty(entry) ==
    \/ entry.engine # "recipe"
    \/ ModeLower(entry.mode) \notin AllowedModes
    \/ ~EntryComplete(entry)

\* the table has a faulty entry or repeats an id_prefix
TableFaulty ==
    \/ \E i \in DOMAIN providers : EntryFaulty(providers[i])
    \/ \E i, j \in DOMAIN providers :
           i # j /\ providers[i].id_prefix = providers[j].id_prefix

\* C18: build_providers either fails with a configuration error or returns
\* a registry in which every provider has every field its search mode uses
\* (its keys are distinct, being the keys of a dict), and a table with a
\* faulty entry or a repeated id_prefix always makes the build fail
C18_BuildFailsOrRegistryComplete ==
    BuildOver =>
        /\ \/ ConfigurationError
           \/ /\ bpc = "returned"
              /\ \A k \in DOMAIN built : EntryComplete(built[k])
        /\ TableFaulty => bpc = "failed"

\* C19: a detail resolution for an id prefix that has no provider in the
\* registry logs a warning and returns an empty result; nothing is raised
C19_UnknownProviderReturnsEmpty ==
    (bpc = "returned" /\ handler_name \notin DOMAIN built /\ hpc \notin {"idle", "except"}) =>
        hpc = "returned" /\ warnings = 1


(* Claims about the local index provider *)

\* the calls of the history that needed the index
NeedingIndex == {i \in 1..Len(history) : history[i].needs_index}

\* C20: over any sequence of search and detail calls the index file is read
\* at most once, by the first call that needs it, and no later call reads
\* it, whatever the outcome of the first read
C20_IndexReadAtMostOnce ==
    /\ reads <= 1
    /\ \A i \in NeedingIndex :
           history[i].read <=> (\A j \in NeedingIndex : i <= j)


\* C22: the closure search returns True if and only if some start id is the
\* root or reaches it along at most max_depth P279 edges
C22_TrueWithinMaxDepth ==
    wpc \in {"true", "false"} =>
        (wpc = "true" <=> Root \in Within(StartIds, max_depth))


\* a closure call is under way before and after the step
SameClosure == wpc \in {"while", "for"} /\ wpc' \in {"while", "for", "true", "false"}

\* C23: within one closure call the visited set only grows, across all
\* frontiers, and each id has its P279 parents read at most once
C23_VisitedAccumulates ==
    [][/\ SameClosure => visited \subseteq visited'
       /\ \A q \in Qids \cup {Root} : Len(expanded'[q]) <= 1]_vars

\* an id of the frontier that was visited in an earlier frontier has been
\* passed over
C23_Witness ==
    /\ wpc = "for"
    /\ \E q \in frontier \ todo :
           /\ q \in visited
           /\ Len(expanded[q]) = 1
           /\ expanded[q][1] < depth


\* the size of the pool the claim gives: the configured max_workers, else
\* min(8, number of providers)
PoolSize == IF cfg.max_workers # Absent THEN cfg.max_workers[1] ELSE Min(8, nprov)

\* every provider has been submitted
AllSubmitted == \A p \in Providers : fstate[p] # "unsubmitted"

\* C24: for a non-empty query every provider's search is submitted exactly
\* once (all are submitted before the merge loop, and a submitted future is
\* never submitted again), each search is invoked at most once, and at no
\* time are more than max_workers searches running
C24_BoundedPool ==
    /\ [](/\ pc \in {"as_completed", "loop", "cancel", "shutdown"} => AllSubmitted
          /\ (pc = "done" /\ query # <<>>) => AllSubmitted
          /\ \A p \in Providers : searchCalls[p] <= 1
          /\ Cardinality(Running) <= PoolSize)
    /\ [][\A p \in Providers :
              (fstate[p] # "unsubmitted" => fstate'[p] # "unsubmitted")
              /\ (fstate'[p] = "pending" => fstate[p] \in {"unsubmitted", "pending"})]_vars

\* with max_workers = 1 one search runs while another waits for the worker
C24_Witness ==
    /\ cfg.max_workers = Set(1)
    /\ Cardinality(Running) = 1
    /\ Pending # {}
    /\ pc = "loop"


\* C29: when get_options has returned no provider search is running or
\* still to run: every task that had started has finished, the others
\* were cancelled or never submitted
C29_NothingRunsAfterReturn ==
    pc = "done" =>
        \A p \in Providers : fstate[p] \in {"unsubmitted", "finished", "cancelled"}

\* get_options returned after the cap was reached, having waited for a task
\* that was running then: the task finished and its result was never merged
C29_Witness ==
    /\ pc = "done"
    /\ fut # 0
    /\ \E p \in Providers : fstate[p] = "finished" /\ p \notin Range(yielded)


\* the step that a FetchStep action applies
CurrentStep == fetch_steps[dstep + 1]

\* C25: a fetch step with assign = k sets key k of the document to the whole
\* response and leaves every other key, `included` among them, as it was
C25_AssignChangesOnlyItsKey ==
    [][(dpc = "steps" /\ ~SpecialCase /\ dstep' = dstep + 1 /\ CurrentStep.assign # Absent) =>
          LET k == CurrentStep.assign[1] IN
          /\ DOMAIN doc' = DOMAIN doc \cup {k}
          /\ doc'[k] = FetchJson(CurrentStep.url)
          /\ \A x \in DOMAIN doc : x # k => doc'[x] = doc[x]]_vars

\* a step with assign = raw has run on a document that had a title and an
\* included list
C25_Witness ==
    /\ dpc = "steps"
    /\ dstep = 2
    /\ fetch_steps[2].assign = Set("raw")
    /\ fetch_steps[2].url = "B"
    /\ DOMAIN doc = {"title", "included", "raw"}
    /\ doc["included"] = <<1>>
    /\ doc["raw"] = FetchJson("B")


\* C30: a transform that returns an empty document leaves the document as
\* it was passed to it, and no transform that returns turns a non-empty
\* document into an empty one
C30_EmptyResultKeepsDocument ==
    [][(dpc = "transforms" /\ tstep' = tstep + 1 /\ dpc' = "transforms") =>
          /\ transforms[tstep'] = "empty" => doc' = doc
          /\ doc # EmptyDict => doc' # EmptyDict]_vars

\* detail returned the document of the first transform after a second
\* transform returned an empty document
C30_Witness ==
    /\ dpc = "returned"
    /\ transforms = <<"tag1", "empty">>
    /\ tstep = 2
    /\ "title" \in DOMAIN doc
    /\ Get(doc, "applied", <<>>) = <<"tag1">>

-----------------------------------------------------------------------------
(* Claims about the post-save handling *)

\* the receiver and everything it called have returned or raised
RunOver == ppc \in {"done", "raised"}

\* the remote ids of the options: one without ':' and one with
SearchRemoteIds == {<<"1">>, <<"1", ":", "2">>}

\* C28: every option id is id_prefix ':' remoteId, and for every such id
\* that is the external id of a saved value, the post-save handler has
\* passed exactly that remoteId to the handler named id_prefix (of the
\* saved attribute) when it is over, also when the remoteId contains ':'.
C28_RemoteIdPassedToNamedHandler ==
    \A i \in 1..Len(all_handlers), rid \in SearchRemoteIds :
        LET x == all_handlers[i] IN
        (/\ RunOver
         /\ x.name = <<"p">> /\ x.field
         /\ external_id = OptionId(rid))
            => <<x.name, rid>> \in Range(passed)

\* the document of detail is {} or has a top-level errors key
EmptyOrErrors == detail_doc = EmptyDict \/ "errors" \in DOMAIN detail_doc

\* C26: when detail yields an empty document or one with a top-level
\* errors key, handle returns an empty attribute map, and the post-save
\* handling of a selection issues no save and no delete and leaves every
\* stored value as it is.
C26_UnusableDocumentWritesNothing ==
    /\ [](EmptyOrErrors =>
            /\ \A n \in Registered, rid \in SearchRemoteIds :
                   handle(n, rid) = [error |-> "", mapped |-> EmptyDict]
            /\ (external_id # <<>> => writes = 0 /\ ppc # "writing"))
    /\ [][(EmptyOrErrors /\ external_id # <<>>) => store' = store]_vars

\* a handler was asked for the selection, the document had errors, and the
\* values stored before are still there
C26_Witness ==
    /\ RunOver
    /\ external_id = OptionId(<<"1">>)
    /\ "errors" \in DOMAIN detail_doc
    /\ passed = << <<<<"p">>, <<"1">>>> >>
    /\ store["A1"] = Set(<<"G">>) /\ store["A2"] = Set(<<"d">>)

\* the with block of update_values_from_mapped_data is being executed
InUpdate == ppc \in {"writing", "leaving"}

\* C27: no save of the update starts a run of handle_post_save (the
\* receiver returns for each of them); the flag is set during the update
\* and has its former value, not set, once the update has finished or
\* raised; a save of the user made then is handled.
C27_MutedDuringUpdateOnly ==
    /\ [](/\ nested = 0
          /\ InUpdate => muted
          /\ ~InUpdate => ~muted /\ token = Absent)
    /\ [][/\ (store' # store /\ InUpdate /\ ppc' = ppc /\ store'[Head(remaining)] # Absent)
              => suppressed' = suppressed + 1
          /\ ppc = "saved" => runs' = runs + 1 /\ ppc' = "handle"]_vars

\* the second save of the value was handled, after an update whose saves the
\* receiver ignored, and its own update raised
C27_Witness ==
    /\ saves = 2 /\ runs = 2
    /\ suppressed > 0
    /\ ppc = "raised" /\ unwinding = "DatabaseError"
    /\ ~muted

-----------------------------------------------------------------------------
(* Claims about a local index shared by threads *)

\* the ids of the items of the file
LoadedIds == {ItemsOf(c_file)[i].pid : i \in 1..Len(ItemsOf(c_file))}

\* C21: when several search and detail calls run concurrently on a
\* LocalIndexProvider that is not initialised, the file is read once, and
\* under every interleaving a detail call that has returned, for an id of
\* the loaded items, has returned the record of that id, not an empty
\* document.
C21_LoadedOnceAndIndexComplete ==
    /\ c_reads <= 1
    /\ \A t \in Threads :
          (/\ c_pc[t] = "done"
           /\ c_call[t].op = "detail"
           /\ c_call[t].arg \in LoadedIds)
              => c_result[t] = <<c_call[t].arg>>

=============================================================================
